---------------------------- MODULE Spec2Model ----------------------------
(***************************************************************************)
(* A model of gabi's selective-disclosure prover core: CLSignature         *)
(* (Verify, Randomize), the DisclosureProofBuilder (construction, Commit,  *)
(* CreateProof) and the Credential's one-slot cache of                     *)
(* NonRevocationProofBuilders.                                             *)
(*                                                                         *)
(* Big integers are TLA+ integers.  The public key is a toy key over the   *)
(* modulus 35 = 5 * 7 (both safe primes); the system parameters are        *)
(* derived by MakeDerivedParameters from a scaled-down base.  Go pointers  *)
(* to NonRevocationProofBuilders are indices into `heap`; Go channels are  *)
(* indices into `chans`; a nil pointer or nil channel is 0.                *)
(***************************************************************************)
EXTENDS Integers, Sequences, FiniteSets, Bags, TLC

\* ------------------------------------------------------------------------
\* Bounds of the model
\* ------------------------------------------------------------------------

\* at most NumTasks calls on the Credential run at the same time
NumTasks == 2
\* at most MaxCalls calls are started in a run of the concurrent model
MaxCalls == 3
\* the accumulator Index of the witness runs over 0..MaxIndex
MaxIndex == 1

\* ------------------------------------------------------------------------
\* Big-integer helpers (gabi/big, internal/common)
\* ------------------------------------------------------------------------

RECURSIVE Pow2(_)
\* new(big.Int).Lsh(big.NewInt(1), n)
Pow2(n) == IF n = 0 THEN 1 ELSE 2 * Pow2(n - 1)

RECURSIVE BitLen(_)
\* (*big.Int).BitLen of a non-negative integer
BitLen(x) == IF x = 0 THEN 0 ELSE 1 + BitLen(x \div 2)

RECURSIVE Exp(_, _, _)
\* new(big.Int).Exp(x, y, n) for y >= 0: square and multiply
Exp(x, y, n) ==
    IF y = 0 THEN 1 % n
    ELSE LET h == Exp(x, y \div 2, n)
             s == (h * h) % n
         IN  IF y % 2 = 1 THEN (s * (x % n)) % n ELSE s

\* common.ModInverse: (inverse, ok); the inverse is 0 when there is none
ModInverse(a, n) ==
    LET inv == {x \in 1..(n - 1) : (a * x) % n = 1}
    IN  IF inv = {} THEN [v |-> 0, ok |-> FALSE]
        ELSE [v |-> CHOOSE x \in inv : TRUE, ok |-> TRUE]

\* common.ModPow: as Exp, a negative exponent inverts the result; 0 stands
\* for the error it returns when that inverse does not exist
ModPow(x, y, n) ==
    IF y >= 0 THEN Exp(x, y, n) ELSE ModInverse(Exp(x, -y, n), n).v

\* common.IntHashSha256 of the bytes of x: a fixed function into [0, 2^Lh),
\* here 2 bits wide; it is not the identity on any sampled attribute
IntHashSha256(x) == (3 * x + 1) % 4

\* (*big.Int).ProbablyPrime(80)
ProbablyPrime(x) == x >= 2 /\ \A q \in 2..(x - 1) : q * q > x \/ x % q # 0

\* m[k] = v on a Go map
MapPut(m, k, v) == [x \in DOMAIN m \cup {k} |-> IF x = k THEN v ELSE m[x]]

\* the indices 1..Len(s) of a sequence, and its elements
Range(s) == {s[i] : i \in DOMAIN s}

\* all orders in which a Go `range` may iterate the key set K
IterOrders(K) ==
    {o \in [1..Cardinality(K) -> K] : \A a, b \in 1..Cardinality(K) : a # b => o[a] # o[b]}

\* ------------------------------------------------------------------------
\* System parameters and keys
\* ------------------------------------------------------------------------

\* defaultBaseParameters, scaled down to a 6-bit modulus
BaseParameters == [LePrime |-> 2, Lh |-> 2, Lm |-> 2, Ln |-> 6, Lstatzk |-> 0]

MakeDerivedParameters(base) ==
    LET Lv == base.Ln + 2 * base.Lstatzk + base.Lh + base.Lm + 4
    IN  [Le            |-> base.Lstatzk + base.Lh + base.Lm + 5,
         LeCommit      |-> base.LePrime + base.Lstatzk + base.Lh,
         LmCommit      |-> base.Lm + base.Lstatzk + base.Lh,
         LRA           |-> base.Ln + base.Lstatzk,
         LsCommit      |-> base.Lm + base.Lstatzk + base.Lh + 1,
         Lv            |-> Lv,
         LvCommit      |-> Lv + base.Lstatzk + base.Lh,
         LvPrime       |-> base.Ln + base.Lstatzk,
         LvPrimeCommit |-> base.Ln + 2 * base.Lstatzk + base.Lh]

\* SystemParameters{BaseParameters, DerivedParameters}
Params ==
    LET dp == MakeDerivedParameters(BaseParameters)
    IN  [x \in DOMAIN BaseParameters \cup DOMAIN dp |->
            IF x \in DOMAIN dp THEN dp[x] ELSE BaseParameters[x]]

\* NewPrivateKey(p, q) with the safe primes 5 and 7
sk == [P |-> 5, Q |-> 7, PPrime |-> (5 - 1) \div 2, QPrime |-> (7 - 1) \div 2]

\* the order p'q' of the group of quadratic residues modulo N
Order == sk.PPrime * sk.QPrime

\* PublicKey: N = P*Q, S a quadratic residue of order p'q', Z = S^8 and
\* R[i] = S^x as GenerateKeyPair derives them (R is 0-based in the code:
\* R[i] of the code is pk.R[i + 1] here)
pk == [N |-> sk.P * sk.Q, S |-> 4, Z |-> 16, R |-> <<4, 9, 11>>, Params |-> Params]

\* d.pk.R[i] with the code's 0-based index
Rbase(i) == pk.R[i + 1]

\* common.RandomBigInt(bits): the sampled outcomes below 2^bits
RandomBigInt(samples, bits) == {x \in samples : 0 <= x /\ x < Pow2(bits)}


\* ------------------------------------------------------------------------
\* CLSignature (clsignature.go).  A signature is [A, E, V, KeyshareP];
\* KeyshareP = 0 is the nil pointer.  Message blocks are sequences: the
\* code's ms[i] is ms[i + 1] here.
\* ------------------------------------------------------------------------

RECURSIVE RepresentToBases(_, _, _, _, _)
\* common.RepresentToBases: the product of bases[i]^exps[i] over the first
\* n exponents, an exponent longer than maxMessageLength bits being hashed
RepresentToBases(bases, exps, modulus, maxMessageLength, n) ==
    IF n = 0 THEN 1
    ELSE LET exp == IF BitLen(exps[n]) > maxMessageLength
                    THEN IntHashSha256(exps[n]) ELSE exps[n]
         IN  (RepresentToBases(bases, exps, modulus, maxMessageLength, n - 1)
                * Exp(bases[n], exp, modulus)) % modulus

RepresentToPublicKey(key, exps) ==
    RepresentToBases(key.R, exps, key.N, key.Params.Lm, Len(exps))

\* signMessageBlockAndCommitment, with the outcomes vTilde and e of its two
\* random draws as arguments
signMessageBlockAndCommitment(U, ms, vTilde, e) ==
    LET R            == RepresentToPublicKey(pk, ms)
        v            == Pow2(pk.Params.Lv - 1) + vTilde
        numerator    == (Exp(pk.S, v, pk.N) * R * U) % pk.N
        invNumerator == ModInverse(numerator, pk.N)
        Q            == (pk.Z * invNumerator.v) % pk.N
        dd           == ModInverse(e, Order)
    IN  [A |-> Exp(Q, dd.v, pk.N), E |-> e, V |-> v, KeyshareP |-> 0]

\* common.RandomPrimeInRange(rand.Reader, Le-1, LePrime-1): the primes of
\* [2^(Le-1), 2^(Le-1) + 2^(LePrime-1)]
RandomPrimeInRange(start, length) ==
    {e \in Pow2(start)..(Pow2(start) + Pow2(length)) : ProbablyPrime(e)}

\* CLSignature.Verify
Verify(s, ms) ==
    LET start == Pow2(pk.Params.Le - 1)
        end   == Pow2(pk.Params.LePrime - 1) + start
        Ae    == Exp(s.A, s.E, pk.N)
        R0    == RepresentToPublicKey(pk, ms)
        R     == IF s.KeyshareP # 0 THEN R0 * s.KeyshareP ELSE R0
        Sv    == ModPow(pk.S, s.V, pk.N)
        Q     == (Ae * R * Sv) % pk.N
    IN  /\ ~(s.E < start \/ s.E > end)
        /\ ProbablyPrime(s.E)
        /\ pk.Z = Q

\* CLSignature.Randomize, with the outcome r of RandomBigInt(LRA) as argument
Randomize(s, r) ==
    LET APrime == (s.A * Exp(pk.S, r, pk.N)) % pk.N
        t      == s.E * r
        VPrime == s.V - t
    IN  [A |-> APrime, E |-> s.E, V |-> VPrime, KeyshareP |-> 0]

\* ------------------------------------------------------------------------
\* State
\* ------------------------------------------------------------------------

VARIABLES
    Signature,             \* ic.Signature
    Attributes,            \* ic.Attributes (the code's Attributes[i] is Attributes[i + 1])
    NonRevocationWitness,  \* ic.NonRevocationWitness: [nil, E, Index]
    nonrevCache,           \* ic.nonrevCache: a channel of chans, 0 = nil
    chans,                 \* the channels made so far: each the sequence of buffered builders
    heap,                  \* the NonRevocationProofBuilders allocated so far
    pc,                    \* per running call (goroutine): the place in the code it is at
    loc,                   \* per running call: its local variables
    calls,                 \* the number of calls started so far
    results,               \* the bag of what the calls that have returned returned
    d,                     \* the DisclosureProofBuilder of the sequential session
    ret                    \* what the last call of the sequential session returned

vars == <<Signature, Attributes, NonRevocationWitness, nonrevCache, chans, heap,
          pc, loc, calls, results, d, ret>>

credVars == <<Signature, Attributes>>
taskVars == <<pc, loc, calls, results>>

Tasks == 1..NumTasks

\* error values; NoErr is Go's nil error
NoErr == "nil"
ErrRangeOnDisclosed == "Range statements on revealed attributes are not supported"
ErrNoWitnessProof == "cannot prove nonrevocation: credential has no witness"
ErrNoWitness == "credential has no nonrevocation witness"
ErrNoRevAttr == "revocation attribute not included in credential"
ErrUninitialized == "cannot update noninitialized NonRevocationProofBuilder"
ErrProofStructure == "rangeproof: statement has no proof structure"
ErrNewProofCommit == "revocation: NewProofCommit failed"

\* ------------------------------------------------------------------------
\* package revocation (opaque collaborator)
\* ------------------------------------------------------------------------

\* a commitment of the list a proof contributes to the challenge: every
\* element of the list is a record of this shape
Contribution(tag, a, b, c) == [tag |-> tag, a |-> a, b |-> b, c |-> c]

\* the nil *revocation.Witness and a witness with revocation attribute e
\* at accumulator index i
NilWitness == [nil |-> TRUE, E |-> 0, Index |-> 0]
Witness(e, i) == [nil |-> FALSE, E |-> e, Index |-> i]

\* revocation.NewProofRandomizer(): a fresh value on every call (the draws
\* so far are the randomizers of the builders allocated so far)
NewProofRandomizer(h) == 20 + Len(h)

\* the response names of a revocation.ProofCommit
NonrevSecrets == {"alpha", "beta", "delta", "epsilon", "zeta"}

\* revocation.NewProofCommit(pk, witness, randomizer): five commitments and
\* the ProofCommit holding the secrets (nil = FALSE)
NewProofCommit(witness, randomizer) ==
    [commitments |-> [j \in 1..5 |-> Contribution("nonrev", j, randomizer, witness.Index)],
     commit      |-> [nil |-> FALSE, randomizer |-> randomizer, Index |-> witness.Index]]

\* (*ProofCommit).Update(commitments, witness): rewrites the commitments
\* in place for the accumulator of the new witness
ProofCommitUpdate(commit, commitments, witness) ==
    [commitments |-> [j \in DOMAIN commitments |-> [commitments[j] EXCEPT !.c = witness.Index]],
     commit      |-> [commit EXCEPT !.Index = witness.Index]]

\* (*ProofCommit).BuildProof(challenge): the responses of all its secrets,
\* the one named "alpha" being randomizer + challenge * e
ProofCommitBuildProof(commit, challenge, e) ==
    [nil |-> FALSE, Challenge |-> challenge, Index |-> commit.Index,
     Responses |-> [n \in NonrevSecrets |->
                       IF n = "alpha" THEN commit.randomizer + challenge * e
                       ELSE challenge + 1]]

NilProof == [nil |-> TRUE, Challenge |-> 0, Index |-> 0, Responses |-> <<>>]

\* ------------------------------------------------------------------------
\* NonRevocationProofBuilder
\* ------------------------------------------------------------------------

NilCommit == [nil |-> TRUE, randomizer |-> 0, Index |-> 0]

\* the nil *NonRevocationProofBuilder
NilBuilder ==
    [nil |-> TRUE, witness |-> NilWitness, commit |-> NilCommit,
     commitments |-> <<>>, randomizer |-> 0, index |-> 0]

\* *b for the pointer id
Deref(h, id) == IF id = 0 THEN NilBuilder ELSE h[id]

\* a variant of UpdateCommit without the test of b.index
UpdateCommitAlways(b, witness) ==
    IF b.nil \/ b.commit.nil \/ Len(b.commitments) < 5
    THEN [b |-> b, err |-> ErrUninitialized]
    ELSE LET u == ProofCommitUpdate(b.commit, b.commitments, witness)
         IN  [b |-> [b EXCEPT !.witness = witness, !.commit = u.commit,
                               !.commitments = u.commitments,
                               !.index = witness.Index],
              err |-> NoErr]

\* a variant of UpdateCommit that tests b.index before the initialization
UpdateCommitIndexFirst(b, witness) ==
    IF b.index >= witness.Index
    THEN [b |-> b, err |-> NoErr]
    ELSE IF b.nil \/ b.commit.nil \/ Len(b.commitments) < 5
    THEN [b |-> b, err |-> ErrUninitialized]
    ELSE LET u == ProofCommitUpdate(b.commit, b.commitments, witness)
         IN  [b |-> [b EXCEPT !.witness = witness, !.commit = u.commit,
                               !.commitments = u.commitments,
                               !.index = witness.Index],
              err |-> NoErr]

\* NonRevocationProofBuilder.UpdateCommit on the object b: the object after
\* the call and the error returned
UpdateCommit(b, witness) ==
    IF b.nil \/ b.commit.nil \/ Len(b.commitments) < 5
    THEN [b |-> b, err |-> ErrUninitialized]
    ELSE IF b.index >= witness.Index
    THEN [b |-> b, err |-> NoErr]
    ELSE LET u == ProofCommitUpdate(b.commit, b.commitments, witness)
         IN  [b |-> [b EXCEPT !.witness = witness, !.commit = u.commit,
                               !.commitments = u.commitments,
                               !.index = witness.Index],
              err |-> NoErr]

\* NonRevocationProofBuilder.Commit on the object b; ok is whether
\* revocation.NewProofCommit succeeds should it be called
NonRevocationProofBuilderCommit(b, ok) ==
    IF b.commitments = <<>>
    THEN IF ok
         THEN LET c == NewProofCommit(b.witness, b.randomizer)
              IN  [b |-> [b EXCEPT !.commitments = c.commitments, !.commit = c.commit],
                   list |-> c.commitments, err |-> NoErr]
         ELSE [b |-> b, list |-> <<>>, err |-> ErrNewProofCommit]
    ELSE [b |-> b, list |-> b.commitments, err |-> NoErr]

\* a variant of NonrevBuildProofBuilder that returns the builder without
\* its call of Commit
NonrevBuildProofBuilderUncommitted(witness, h, ok) ==
    IF witness.nil
    THEN [b |-> NilBuilder, err |-> ErrNoWitness]
    ELSE [b |-> [nil |-> FALSE, witness |-> witness, commit |-> NilCommit,
                 commitments |-> <<>>, randomizer |-> NewProofRandomizer(h),
                 index |-> witness.Index],
          err |-> NoErr]

\* Credential.NonrevBuildProofBuilder: the object built (allocated by the
\* caller of this operator when err is nil) and the error
NonrevBuildProofBuilder(witness, h, ok) ==
    IF witness.nil
    THEN [b |-> NilBuilder, err |-> ErrNoWitness]
    ELSE LET b == [nil |-> FALSE, witness |-> witness, commit |-> NilCommit,
                   commitments |-> <<>>, randomizer |-> NewProofRandomizer(h),
                   index |-> witness.Index]
             c == NonRevocationProofBuilderCommit(b, ok)
         IN  IF c.err # NoErr THEN [b |-> NilBuilder, err |-> c.err]
             ELSE [b |-> c.b, err |-> NoErr]

RECURSIVE NonrevIndexDownFrom(_, _, _)
\* a variant of the loop that runs from the index idx down to 0
NonrevIndexDownFrom(attrs, witness, idx) ==
    IF idx < 0 THEN [idx |-> -1, err |-> ErrNoRevAttr]
    ELSE IF attrs[idx + 1] = witness.E THEN [idx |-> idx, err |-> NoErr]
    ELSE NonrevIndexDownFrom(attrs, witness, idx - 1)

\* a variant of NonrevIndex that returns the last index of the attribute
NonrevIndexLast(attrs, witness) ==
    IF witness.nil THEN [idx |-> -1, err |-> ErrNoWitness]
    ELSE NonrevIndexDownFrom(attrs, witness, Len(attrs) - 1)

RECURSIVE NonrevIndexFrom(_, _, _)
\* the loop of Credential.NonrevIndex from the code's index idx on
NonrevIndexFrom(attrs, witness, idx) ==
    IF idx >= Len(attrs) THEN [idx |-> -1, err |-> ErrNoRevAttr]
    ELSE IF attrs[idx + 1] = witness.E THEN [idx |-> idx, err |-> NoErr]
    ELSE NonrevIndexFrom(attrs, witness, idx + 1)

\* Credential.NonrevIndex
NonrevIndex(attrs, witness) ==
    IF witness.nil THEN [idx |-> -1, err |-> ErrNoWitness]
    ELSE NonrevIndexFrom(attrs, witness, 0)

\* ------------------------------------------------------------------------
\* package rangeproof (opaque collaborator).  A Statement is a small
\* integer; statement 0 is one for which ProofStructure returns an error.
\* ------------------------------------------------------------------------

\* (*Statement).ProofStructure(index)
ProofStructure(statement, index) ==
    IF statement = 0
    THEN [structure |-> [index |-> index, statement |-> statement], err |-> ErrProofStructure]
    ELSE [structure |-> [index |-> index, statement |-> statement], err |-> NoErr]

\* (*ProofStructure).CommitmentsFromSecrets(pk, m, mRandomizer): the
\* contribution to the challenge and the ProofCommit kept for BuildProof
CommitmentsFromSecrets(structure, m, mRandomizer) ==
    [contributions |-> <<Contribution("range", structure.index, structure.statement, mRandomizer)>>,
     commit        |-> [index |-> structure.index, statement |-> structure.statement,
                        m |-> m, mRandomizer |-> mRandomizer]]

\* (*ProofStructure).BuildProof(commit, challenge)
RangeBuildProof(structure, commit, challenge) ==
    [index |-> structure.index, statement |-> structure.statement,
     mResponse |-> commit.mRandomizer + challenge * commit.m]

\* a nil Go map, and a map with the entries of the function m
NilMap == [nil |-> TRUE, m |-> <<>>]
MakeMap(m) == [nil |-> FALSE, m |-> m]

\* ------------------------------------------------------------------------
\* DisclosureProofBuilder: helpers
\* ------------------------------------------------------------------------

\* a variant of getUndisclosedAttributes that leaves the attribute of index
\* 0 out of its result
getUndisclosedAttributesFromOne(disclosedAttributes, numAttributes) ==
    SelectSeq([i \in 1..numAttributes |-> i - 1],
              LAMBDA i : i # 0 /\ \A j \in DOMAIN disclosedAttributes : disclosedAttributes[j] # i)

\* getUndisclosedAttributes: the indices 0..numAttributes-1 that are not in
\* the list, ascending
getUndisclosedAttributes(disclosedAttributes, numAttributes) ==
    LET check == [i \in 0..(numAttributes - 1) |->
                     \E j \in DOMAIN disclosedAttributes : disclosedAttributes[j] = i]
    IN  SelectSeq([i \in 1..numAttributes |-> i - 1], LAMBDA i : ~check[i])

\* isUndisclosedAttribute
isUndisclosedAttribute(disclosedAttributes, attribute) ==
    \A j \in DOMAIN disclosedAttributes : disclosedAttributes[j] # attribute

RECURSIVE StructuresOf(_, _, _)
\* the inner loop of the range-proof section of CreateDisclosureProofBuilder
\* over statements[j..]: the structures appended, or the first error
StructuresOf(statements, index, j) ==
    IF j > Len(statements) THEN [structures |-> <<>>, err |-> NoErr]
    ELSE LET s == ProofStructure(statements[j], index)
         IN  IF s.err # NoErr THEN [structures |-> <<>>, err |-> s.err]
             ELSE LET rest == StructuresOf(statements, index, j + 1)
                  IN  [structures |-> <<s.structure>> \o rest.structures, err |-> rest.err]

RECURSIVE RangeStructures(_, _, _, _, _)
\* the outer loop, `for index, statements := range rangeStatements`, which
\* visits the keys in the order `order` from position i on; acc is
\* d.rpStructures so far
RangeStructures(disclosedAttributes, rangeStatements, order, i, acc) ==
    IF i > Len(order) THEN [rpStructures |-> acc, err |-> NoErr]
    ELSE LET index == order[i]
             s     == StructuresOf(rangeStatements[index], index, 1)
         IN  IF ~isUndisclosedAttribute(disclosedAttributes, index)
             THEN [rpStructures |-> acc, err |-> ErrRangeOnDisclosed]
             ELSE IF s.err # NoErr
             THEN [rpStructures |-> acc, err |-> s.err]
             ELSE RangeStructures(disclosedAttributes, rangeStatements, order, i + 1,
                                  IF s.structures = <<>> THEN acc
                                  ELSE MapPut(acc, index, s.structures))

\* the DisclosureProofBuilder nobody has built yet
NoBuilder ==
    [built |-> FALSE,
     randomizedSignature |-> [A |-> 0, E |-> 0, V |-> 0, KeyshareP |-> 0],
     eCommit |-> 0, vCommit |-> 0, attrRandomizers |-> <<>>, z |-> 0,
     disclosedAttributes |-> <<>>, undisclosedAttributes |-> <<>>,
     attributes |-> <<>>, nonrevBuilder |-> 0,
     rpStructures |-> NilMap, rpCommits |-> NilMap]

\* CreateDisclosureProofBuilder up to the revocation section (lines
\* 138-185): r, eCommit and vCommit are the random draws, tape[i + 1] the
\* draw for attribute i, order the iteration order of the statement map
BuildMain(sig, attrs, disclosedAttributes, rangeStatements, r, eCommit, vCommit, tape, order) ==
    LET undisclosed == getUndisclosedAttributes(disclosedAttributes, Len(attrs))
        rp == IF rangeStatements.nil THEN [rpStructures |-> <<>>, err |-> NoErr]
              ELSE RangeStructures(disclosedAttributes, rangeStatements.m, order, 1, <<>>)
    IN  [d |-> [built |-> TRUE,
                randomizedSignature |-> Randomize(sig, r),
                eCommit |-> eCommit,
                vCommit |-> vCommit,
                attrRandomizers |-> [v \in Range(undisclosed) |-> tape[v + 1]],
                z |-> 1,
                disclosedAttributes |-> disclosedAttributes,
                undisclosedAttributes |-> undisclosed,
                attributes |-> attrs,
                nonrevBuilder |-> 0,
                rpStructures |-> IF rangeStatements.nil THEN NilMap
                                 ELSE MakeMap(rp.rpStructures),
                rpCommits |-> NilMap],
         err |-> rp.err]

\* ------------------------------------------------------------------------
\* The non-revocation builder cache: ic.nonrevCache, a channel of capacity 1
\* ------------------------------------------------------------------------

\* make(chan *NonRevocationProofBuilder, 1)
CacheCapacity == 1

\* a variant of the receive that leaves the value it delivers in the buffer
SelectRecvPeek(chs, ch) ==
    IF ch # 0 /\ Len(chs[ch]) > 0
    THEN {[recv |-> TRUE, b |-> Head(chs[ch]), chans |-> chs]}
    ELSE {[recv |-> FALSE, b |-> 0, chans |-> chs]}

\* a variant of the receive without default case, `b := <-ch`: no outcome
\* while the channel is nil or empty
SelectRecvBlocking(chs, ch) ==
    IF ch # 0 /\ Len(chs[ch]) > 0
    THEN {[recv |-> TRUE, b |-> Head(chs[ch]), chans |-> [chs EXCEPT ![ch] = Tail(@)]]}
    ELSE {}

\* `case b := <-ch` of a select with a default case: the receive when the
\* channel is not nil and holds a value, the default case otherwise
SelectRecv(chs, ch) ==
    IF ch # 0 /\ Len(chs[ch]) > 0
    THEN {[recv |-> TRUE, b |-> Head(chs[ch]), chans |-> [chs EXCEPT ![ch] = Tail(@)]]}
    ELSE {[recv |-> FALSE, b |-> 0, chans |-> chs]}

\* a variant of the send without default case, `ch <- b`: no outcome while
\* the channel is nil or its buffer is full
SelectSendBlocking(chs, ch, b) ==
    IF ch # 0 /\ Len(chs[ch]) < CacheCapacity
    THEN {[sent |-> TRUE, chans |-> [chs EXCEPT ![ch] = Append(@, b)]]}
    ELSE {}

\* `case ch <- b` of a select with a default case: the send when the channel
\* is not nil and its buffer has room, the default case (b is dropped)
\* otherwise
SelectSend(chs, ch, b) ==
    IF ch # 0 /\ Len(chs[ch]) < CacheCapacity
    THEN {[sent |-> TRUE, chans |-> [chs EXCEPT ![ch] = Append(@, b)]]}
    ELSE {[sent |-> FALSE, chans |-> chs]}

\* a variant of line 214 that leaves the builder as it was taken
UpdateTakenSkipped(h, b, witness) == [heap |-> h, b |-> b, err |-> NoErr]

\* line 214: b.UpdateCommit(ic.NonRevocationWitness) on the builder the
\* pointer b names; the heap after it and the error
UpdateTaken(h, b, witness) ==
    LET u == UpdateCommit(Deref(h, b), witness)
    IN  [heap |-> IF b = 0 THEN h ELSE [h EXCEPT ![b] = u.b], b |-> b, err |-> u.err]

\* a variant of the build that hands out the builder allocated first, if
\* there is one, instead of a new one
BuildFreshReusing(h, witness, ok) ==
    LET n == NonrevBuildProofBuilder(witness, h, ok)
    IN  IF n.err # NoErr THEN [heap |-> h, b |-> 0, err |-> n.err]
        ELSE IF h # <<>> THEN [heap |-> h, b |-> 1, err |-> NoErr]
        ELSE [heap |-> Append(h, n.b), b |-> Len(h) + 1, err |-> NoErr]

\* lines 216 and 238: ic.NonrevBuildProofBuilder(); the heap after it, the
\* pointer returned (nil on error) and the error
BuildFresh(h, witness, ok) ==
    LET n == NonrevBuildProofBuilder(witness, h, ok)
    IN  IF n.err # NoErr THEN [heap |-> h, b |-> 0, err |-> n.err]
        ELSE [heap |-> Append(h, n.b), b |-> Len(h) + 1, err |-> NoErr]

\* ------------------------------------------------------------------------
\* Concurrent calls on one Credential (Spec).  A call is NonrevPrepareCache
\* or the revocation section of CreateDisclosureProofBuilder (nonrev =
\* true); it runs on a goroutine of its own, one step per access to the
\* Credential's shared fields.  The goroutines 1..NumTasks are slots for
\* the calls in progress: a new call takes the lowest free slot.
\* ------------------------------------------------------------------------

NoLocals == [ch |-> 0, b |-> 0]

\* the model's bound on the length of a run, and the slot of a new call
MayStart(t) ==
    /\ calls < MaxCalls
    /\ pc[t] = "idle"
    /\ \A u \in Tasks : u < t => pc[u] # "idle"

\* the call `op` of slot t returns (b, err); for NonrevPrepareCache b is the
\* builder it held when it returned
Return(t, op, b, err) ==
    /\ pc' = [pc EXCEPT ![t] = "idle"]
    /\ loc' = [loc EXCEPT ![t] = NoLocals]
    /\ results' = results (+) SetToBag({[op |-> op, b |-> b, err |-> err]})

\* a caller starts NonrevPrepareCache: lines 224-229 up to the test of
\* ic.nonrevCache
PrepareStart(t) ==
    /\ MayStart(t)
    /\ calls' = calls + 1
    /\ IF NonRevocationWitness.nil
       THEN Return(t, "prepare", 0, NoErr)
       ELSE /\ pc' = [pc EXCEPT ![t] = IF nonrevCache = 0 THEN "prep_make" ELSE "prep_recv"]
            /\ UNCHANGED <<loc, results>>
    /\ UNCHANGED <<credVars, NonRevocationWitness, nonrevCache, chans, heap, d, ret>>

\* line 228: ic.nonrevCache = make(chan *NonRevocationProofBuilder, 1)
PrepareMake(t) ==
    /\ pc[t] = "prep_make"
    /\ chans' = Append(chans, <<>>)
    /\ nonrevCache' = Len(chans) + 1
    /\ pc' = [pc EXCEPT ![t] = "prep_recv"]
    /\ UNCHANGED <<credVars, NonRevocationWitness, heap, loc, calls, results, d, ret>>

\* Some caller is about to assign ic.nonrevCache.  Only then can the field
\* change between the evaluation of a select's channel operand and the
\* select itself: a caller reaches line 228 only from a nil field, and a
\* select on the nil channel takes its default case whenever it runs.  So
\* the operand and the select are two steps while MakePending holds and one
\* step otherwise.
MakePending == \E u \in Tasks : pc[u] = "prep_make"

\* the first select of NonrevPrepareCache on the channel ch, lines 232-239
PrepareSelectOn(t, ch) ==
    \E s \in SelectRecv(chans, ch) :
       /\ chans' = s.chans
       /\ loc' = [loc EXCEPT ![t].ch = ch, ![t].b = s.b]
       /\ pc' = [pc EXCEPT ![t] = IF s.recv THEN "prep_update" ELSE "prep_build"]
       /\ results' = results

\* line 233: the channel operand ic.nonrevCache of the receive is evaluated
PrepareRecvOperand(t) ==
    /\ pc[t] = "prep_recv"
    /\ IF MakePending
       THEN /\ loc' = [loc EXCEPT ![t].ch = nonrevCache]
            /\ pc' = [pc EXCEPT ![t] = "prep_select"]
            /\ UNCHANGED <<chans, results>>
       ELSE PrepareSelectOn(t, nonrevCache)
    /\ UNCHANGED <<credVars, NonRevocationWitness, nonrevCache, heap, calls, d, ret>>

\* lines 232-239: the first select, on the operand evaluated before
PrepareSelect(t) ==
    /\ pc[t] = "prep_select"
    /\ PrepareSelectOn(t, loc[t].ch)
    /\ UNCHANGED <<credVars, NonRevocationWitness, nonrevCache, heap, calls, d, ret>>

\* lines 235 and 240-242: update the builder taken from the channel
PrepareUpdate(t) ==
    /\ pc[t] = "prep_update"
    /\ LET u == UpdateTaken(heap, loc[t].b, NonRevocationWitness)
       IN  /\ heap' = u.heap
           /\ IF u.err # NoErr
              THEN Return(t, "prepare", loc[t].b, u.err)
              ELSE /\ pc' = [pc EXCEPT ![t] = "prep_send"]
                   /\ UNCHANGED <<loc, results>>
    /\ UNCHANGED <<credVars, NonRevocationWitness, nonrevCache, chans, calls, d, ret>>

\* lines 238 and 240-242: build a new builder
PrepareBuild(t) ==
    /\ pc[t] = "prep_build"
    /\ \E ok \in BOOLEAN :
          LET n == BuildFresh(heap, NonRevocationWitness, ok)
          IN  /\ heap' = n.heap
              /\ IF n.err # NoErr
                 THEN Return(t, "prepare", 0, n.err)
                 ELSE /\ pc' = [pc EXCEPT ![t] = "prep_send"]
                      /\ loc' = [loc EXCEPT ![t].b = n.b]
                      /\ results' = results
    /\ UNCHANGED <<credVars, NonRevocationWitness, nonrevCache, chans, calls, d, ret>>

\* the second select of NonrevPrepareCache on the channel ch, and the
\* return: lines 246-251
PreparePutOn(t, ch) ==
    \E s \in SelectSend(chans, ch, loc[t].b) :
       /\ chans' = s.chans
       /\ Return(t, "prepare", loc[t].b, NoErr)

\* line 247: the channel operand ic.nonrevCache of the send is evaluated
PrepareSendOperand(t) ==
    /\ pc[t] = "prep_send"
    /\ IF MakePending
       THEN /\ loc' = [loc EXCEPT ![t].ch = nonrevCache]
            /\ pc' = [pc EXCEPT ![t] = "prep_put"]
            /\ UNCHANGED <<chans, results>>
       ELSE PreparePutOn(t, nonrevCache)
    /\ UNCHANGED <<credVars, NonRevocationWitness, nonrevCache, heap, calls, d, ret>>

\* lines 246-251: the second select, on the operand evaluated before
PreparePut(t) ==
    /\ pc[t] = "prep_put"
    /\ PreparePutOn(t, loc[t].ch)
    /\ UNCHANGED <<credVars, NonRevocationWitness, nonrevCache, heap, calls, d, ret>>

\* a caller starts CreateDisclosureProofBuilder with nonrev = true and has
\* reached its revocation section: lines 188-198
ConsumeStart(t) ==
    /\ MayStart(t)
    /\ calls' = calls + 1
    /\ LET revIdx == NonrevIndex(Attributes, NonRevocationWitness)
       IN  IF NonRevocationWitness.nil
           THEN Return(t, "consume", 0, ErrNoWitnessProof)
           ELSE IF revIdx.err # NoErr
           THEN Return(t, "consume", 0, revIdx.err)
           ELSE /\ pc' = [pc EXCEPT ![t] = "cons_recv"]
                /\ UNCHANGED <<loc, results>>
    /\ UNCHANGED <<credVars, NonRevocationWitness, nonrevCache, chans, heap, d, ret>>

\* a variant of the select of nonrevConsumeBuilder that leaves the builder
\* it delivers in the channel
ConsumeSelectLeaving(t, ch) ==
    \E s \in SelectRecvPeek(chans, ch) :
       /\ chans' = s.chans
       /\ loc' = [loc EXCEPT ![t].ch = ch, ![t].b = s.b]
       /\ pc' = [pc EXCEPT ![t] = IF s.recv THEN "cons_update" ELSE "cons_build"]
       /\ results' = results

\* the select of nonrevConsumeBuilder on the channel ch, lines 212-217
ConsumeSelectOn(t, ch) ==
    \E s \in SelectRecv(chans, ch) :
       /\ chans' = s.chans
       /\ loc' = [loc EXCEPT ![t].ch = ch, ![t].b = s.b]
       /\ pc' = [pc EXCEPT ![t] = IF s.recv THEN "cons_update" ELSE "cons_build"]
       /\ results' = results

\* line 213: the channel operand ic.nonrevCache of the receive is evaluated
ConsumeRecvOperand(t) ==
    /\ pc[t] = "cons_recv"
    /\ IF MakePending
       THEN /\ loc' = [loc EXCEPT ![t].ch = nonrevCache]
            /\ pc' = [pc EXCEPT ![t] = "cons_select"]
            /\ UNCHANGED <<chans, results>>
       ELSE ConsumeSelectOn(t, nonrevCache)
    /\ UNCHANGED <<credVars, NonRevocationWitness, nonrevCache, heap, calls, d, ret>>

\* lines 212-217: the select, on the operand evaluated before
ConsumeSelect(t) ==
    /\ pc[t] = "cons_select"
    /\ ConsumeSelectOn(t, loc[t].ch)
    /\ UNCHANGED <<credVars, NonRevocationWitness, nonrevCache, heap, calls, d, ret>>

\* lines 199-205 with the outcome (h, b, err) of nonrevConsumeBuilder: on
\* success the DisclosureProofBuilder returned holds b as its nonrevBuilder
\* (and shares its randomizer), on an error no builder is returned
ConsumeFinish(t, u) ==
    /\ heap' = u.heap
    /\ IF u.err # NoErr
       THEN Return(t, "consume", 0, u.err)
       ELSE Return(t, "consume", u.b, NoErr)

\* line 214, then lines 200-205
ConsumeUpdate(t) ==
    /\ pc[t] = "cons_update"
    /\ ConsumeFinish(t, UpdateTaken(heap, loc[t].b, NonRevocationWitness))
    /\ UNCHANGED <<credVars, NonRevocationWitness, nonrevCache, chans, calls, d, ret>>

\* line 216, then lines 200-205
ConsumeBuild(t) ==
    /\ pc[t] = "cons_build"
    /\ \E ok \in BOOLEAN :
          ConsumeFinish(t, BuildFresh(heap, NonRevocationWitness, ok))
    /\ UNCHANGED <<credVars, NonRevocationWitness, nonrevCache, chans, calls, d, ret>>

\* the caller replaces the witness by an updated one, of the next
\* accumulator index
WitnessUpdate ==
    /\ ~NonRevocationWitness.nil
    /\ NonRevocationWitness.Index < MaxIndex
    /\ NonRevocationWitness' = [NonRevocationWitness EXCEPT !.Index = @ + 1]
    /\ UNCHANGED <<credVars, nonrevCache, chans, heap, pc, loc, calls, results, d, ret>>

\* ------------------------------------------------------------------------
\* The calls of a sequential session (SpecD): each handler is one step
\* ------------------------------------------------------------------------

\* Credential.nonrevConsumeBuilder: the channels and the heap after it, the
\* pointer and the error it returns
nonrevConsumeBuilder(cache, chs, h, witness, ok) ==
    LET s == CHOOSE x \in SelectRecv(chs, cache) : TRUE
        u == IF s.recv THEN UpdateTaken(h, s.b, witness) ELSE BuildFresh(h, witness, ok)
    IN  [chans |-> s.chans, heap |-> u.heap, b |-> u.b, err |-> u.err, recv |-> s.recv]

\* a variant of NonrevPrepareCache that builds a new builder also when it
\* has taken one out of the channel
NonrevPrepareCacheRebuilding(cache, chs, h, witness, ok) ==
    IF witness.nil
    THEN [nonrevCache |-> cache, chans |-> chs, heap |-> h, err |-> NoErr]
    ELSE LET chs1   == IF cache = 0 THEN Append(chs, <<>>) ELSE chs
             cache1 == IF cache = 0 THEN Len(chs) + 1 ELSE cache
             s      == CHOOSE x \in SelectRecv(chs1, cache1) : TRUE
             u      == BuildFresh(h, witness, ok)
             p      == CHOOSE x \in SelectSend(s.chans, cache1, u.b) : TRUE
         IN  IF u.err # NoErr
             THEN [nonrevCache |-> cache1, chans |-> s.chans, heap |-> u.heap, err |-> u.err]
             ELSE [nonrevCache |-> cache1, chans |-> p.chans, heap |-> u.heap, err |-> NoErr]

\* Credential.NonrevPrepareCache: the cache field, the channels and the heap
\* after it, and the error it returns
NonrevPrepareCacheCall(cache, chs, h, witness, ok) ==
    IF witness.nil
    THEN [nonrevCache |-> cache, chans |-> chs, heap |-> h, err |-> NoErr]
    ELSE LET chs1   == IF cache = 0 THEN Append(chs, <<>>) ELSE chs
             cache1 == IF cache = 0 THEN Len(chs) + 1 ELSE cache
             s      == CHOOSE x \in SelectRecv(chs1, cache1) : TRUE
             u      == IF s.recv THEN UpdateTaken(h, s.b, witness)
                       ELSE BuildFresh(h, witness, ok)
             p      == CHOOSE x \in SelectSend(s.chans, cache1, u.b) : TRUE
         IN  IF u.err # NoErr
             THEN [nonrevCache |-> cache1, chans |-> s.chans, heap |-> u.heap, err |-> u.err]
             ELSE [nonrevCache |-> cache1, chans |-> p.chans, heap |-> u.heap, err |-> NoErr]

RECURSIVE CommitZ(_, _, _, _)
\* the loop of Commit over d.undisclosedAttributes[i..], lines 313-320
CommitZ(z, undisclosed, attrRandomizers, i) ==
    IF i > Len(undisclosed) THEN z
    ELSE LET v == undisclosed[i]
             t == ModPow(Rbase(v), attrRandomizers[v], pk.N)
         IN  CommitZ((z * t) % pk.N, undisclosed, attrRandomizers, i + 1)

RECURSIVE RangeCommitsOf(_, _, _, _)
\* the inner loop of the range-proof section of Commit over structures[j..]
RangeCommitsOf(structures, m, mRandomizer, j) ==
    IF j > Len(structures) THEN [contributions |-> <<>>, commits |-> <<>>]
    ELSE LET c    == CommitmentsFromSecrets(structures[j], m, mRandomizer)
             rest == RangeCommitsOf(structures, m, mRandomizer, j + 1)
         IN  [contributions |-> c.contributions \o rest.contributions,
              commits |-> <<c.commit>> \o rest.commits]

RECURSIVE RangeCommitsDown(_, _, _, _)
\* a variant of the outer loop that visits the indices from index down to 0
RangeCommitsDown(rpStructures, attrs, attrRandomizers, index) ==
    IF index < 0 THEN [contributions |-> <<>>, rpCommits |-> <<>>]
    ELSE LET rest == RangeCommitsDown(rpStructures, attrs, attrRandomizers, index - 1)
         IN  IF index \notin DOMAIN rpStructures THEN rest
             ELSE LET c == RangeCommitsOf(rpStructures[index], attrs[index + 1],
                                          attrRandomizers[index], 1)
                  IN  [contributions |-> c.contributions \o rest.contributions,
                       rpCommits |-> MapPut(rest.rpCommits, index, c.commits)]

\* a variant of the outer loop in descending order of the index
RangeCommitsDescending(rpStructures, attrs, attrRandomizers, index) ==
    RangeCommitsDown(rpStructures, attrs, attrRandomizers, Len(attrs) - 1)

RECURSIVE RangeCommits(_, _, _, _)
\* the outer loop, `for index := 0; index < len(d.attributes); index++`,
\* from index on: the contributions appended to the list and d.rpCommits
RangeCommits(rpStructures, attrs, attrRandomizers, index) ==
    IF index >= Len(attrs) THEN [contributions |-> <<>>, rpCommits |-> <<>>]
    ELSE LET rest == RangeCommits(rpStructures, attrs, attrRandomizers, index + 1)
         IN  IF index \notin DOMAIN rpStructures THEN rest
             ELSE LET c == RangeCommitsOf(rpStructures[index], attrs[index + 1],
                                          attrRandomizers[index], 1)
                  IN  [contributions |-> c.contributions \o rest.contributions,
                       rpCommits |-> MapPut(rest.rpCommits, index, c.commits)]

\* DisclosureProofBuilder.Commit on the builder dd: the builder after the
\* call and the list returned
Commit(dd, randomizers, h) ==
    LET ar   == MapPut(dd.attrRandomizers, 0, randomizers["secretkey"])
        Ae   == ModPow(dd.randomizedSignature.A, dd.eCommit, pk.N)
        Sv   == ModPow(pk.S, dd.vCommit, pk.N)
        z1   == (dd.z * Ae * Sv) % pk.N
        z    == CommitZ(z1, dd.undisclosedAttributes, ar, 1)
        main == <<Contribution("A", dd.randomizedSignature.A, 0, 0), Contribution("Z", z, 0, 0)>>
        l    == IF dd.nonrevBuilder # 0
                THEN NonRevocationProofBuilderCommit(Deref(h, dd.nonrevBuilder), TRUE).list
                ELSE <<>>
        rp   == RangeCommits(dd.rpStructures.m, dd.attributes, ar, 0)
    IN  [d |-> [dd EXCEPT !.attrRandomizers = ar, !.z = z,
                          !.rpCommits = IF dd.rpStructures.nil THEN @
                                        ELSE MakeMap(rp.rpCommits)],
         list |-> IF dd.rpStructures.nil THEN main \o l
                  ELSE main \o l \o rp.contributions]

\* DisclosureProofBuilder.MergeProofPCommitment
MergeProofPCommitment(dd, Pcommit) == [dd EXCEPT !.z = (dd.z * Pcommit) % pk.N]

\* the nil *ProofD
NilProofD ==
    [nil |-> TRUE, C |-> 0, A |-> 0, EResponse |-> 0, VResponse |-> 0,
     AResponses |-> <<>>, ADisclosed |-> <<>>, NonRevocationProof |-> NilProof,
     RangeProofs |-> NilMap]

\* a variant of the response that is cut to the LmCommit bits of a randomizer
AResponseReduced(dd, challenge, v) ==
    LET exp0 == dd.attributes[v + 1]
        exp  == IF BitLen(exp0) > pk.Params.Lm THEN IntHashSha256(exp0) ELSE exp0
    IN  (dd.attrRandomizers[v] + challenge * exp) % Pow2(pk.Params.LmCommit)

\* a variant of the response that never hashes the attribute
AResponseUnhashed(dd, challenge, v) ==
    dd.attrRandomizers[v] + challenge * dd.attributes[v + 1]

\* lines 371-383: the response of the hidden attribute v
AResponse(dd, challenge, v) ==
    LET exp0 == dd.attributes[v + 1]
        exp  == IF BitLen(exp0) > pk.Params.Lm THEN IntHashSha256(exp0) ELSE exp0
    IN  dd.attrRandomizers[v] + challenge * exp

\* a variant of lines 391-396 that keeps every response of the proof
NonRevocationProofWithAlpha(dd, challenge, h) ==
    IF dd.nonrevBuilder # 0
    THEN LET b == Deref(h, dd.nonrevBuilder)
         IN  ProofCommitBuildProof(b.commit, challenge, b.witness.E)
    ELSE NilProof

\* lines 391-396: the non-revocation proof without its "alpha" response
NonRevocationProofOf(dd, challenge, h) ==
    IF dd.nonrevBuilder # 0
    THEN LET b == Deref(h, dd.nonrevBuilder)
             p == ProofCommitBuildProof(b.commit, challenge, b.witness.E)
         IN  [p EXCEPT !.Responses = [n \in DOMAIN p.Responses \ {"alpha"} |-> p.Responses[n]]]
    ELSE NilProof

\* lines 398-408 index d.rpCommits[index][i] for every structure: a missing
\* commit is an index out of range, a run-time panic
RangeProofsPanic(dd) ==
    /\ ~dd.rpStructures.nil
    /\ \E index \in DOMAIN dd.rpStructures.m :
          \/ dd.rpCommits.nil
          \/ index \notin DOMAIN dd.rpCommits.m
          \/ Len(dd.rpCommits.m[index]) < Len(dd.rpStructures.m[index])

\* lines 398-408: the range proofs
RangeProofsOf(dd, challenge) ==
    IF dd.rpStructures.nil THEN NilMap
    ELSE MakeMap([index \in DOMAIN dd.rpStructures.m |->
                    [i \in DOMAIN dd.rpStructures.m[index] |->
                        RangeBuildProof(dd.rpStructures.m[index][i],
                                        dd.rpCommits.m[index][i], challenge)]])

\* a variant of CreateProof that reduces EResponse and VResponse modulo N
CreateProofReduced(dd, challenge, h) ==
    LET ePrime    == dd.randomizedSignature.E - Pow2(pk.Params.Le - 1)
        eResponse == (dd.eCommit + challenge * ePrime) % pk.N
        vResponse == (dd.vCommit + challenge * dd.randomizedSignature.V) % pk.N
    IN  [nil |-> FALSE,
         C |-> challenge,
         A |-> dd.randomizedSignature.A,
         EResponse |-> eResponse,
         VResponse |-> vResponse,
         AResponses |-> [v \in Range(dd.undisclosedAttributes) |-> AResponse(dd, challenge, v)],
         ADisclosed |-> [v \in Range(dd.disclosedAttributes) |-> dd.attributes[v + 1]],
         NonRevocationProof |-> NonRevocationProofOf(dd, challenge, h),
         RangeProofs |-> RangeProofsOf(dd, challenge)]

\* DisclosureProofBuilder.CreateProof
CreateProof(dd, challenge, h) ==
    LET ePrime    == dd.randomizedSignature.E - Pow2(pk.Params.Le - 1)
        eResponse == dd.eCommit + challenge * ePrime
        vResponse == dd.vCommit + challenge * dd.randomizedSignature.V
    IN  [nil |-> FALSE,
         C |-> challenge,
         A |-> dd.randomizedSignature.A,
         EResponse |-> eResponse,
         VResponse |-> vResponse,
         AResponses |-> [v \in Range(dd.undisclosedAttributes) |-> AResponse(dd, challenge, v)],
         ADisclosed |-> [v \in Range(dd.disclosedAttributes) |-> dd.attributes[v + 1]],
         NonRevocationProof |-> NonRevocationProofOf(dd, challenge, h),
         RangeProofs |-> RangeProofsOf(dd, challenge)]

\* a variant of TimestampRequestContributions that fills every slot
TimestampRequestContributionsUnzeroed(dd) ==
    [nil |-> FALSE, A |-> dd.randomizedSignature.A, disclosed |-> dd.attributes]

\* DisclosureProofBuilder.TimestampRequestContributions: a slice of
\* len(d.attributes) zeros, in which the slot of every disclosed index is then
\* overwritten with the attribute; returned with A of the randomized signature
TimestampRequestContributions(dd) ==
    LET zeros     == [i \in 1..Len(dd.attributes) |-> 0]
        disclosed == [i \in 1..Len(dd.attributes) |->
                        IF (i - 1) \in Range(dd.disclosedAttributes)
                        THEN dd.attributes[i] ELSE zeros[i]]
    IN  [nil |-> FALSE, A |-> dd.randomizedSignature.A, disclosed |-> disclosed]

\* a variant of CreateDisclosureProofBuilder without the test of line 191
CreateDisclosureProofBuilderUntested(sig, attrs, witness, cache, chs, h, disclosedAttributes, rangeStatements, nonrev, r, eCommit, vCommit, tape, order, ok) ==
    LET main   == BuildMain(sig, attrs, disclosedAttributes, rangeStatements,
                            r, eCommit, vCommit, tape, order)
        revIdx == NonrevIndex(attrs, witness)
        c      == nonrevConsumeBuilder(cache, chs, h, witness, ok)
        fail(err) == [d |-> NoBuilder, err |-> err, chans |-> chs, heap |-> h]
    IN  IF main.err # NoErr THEN fail(main.err)
        ELSE IF ~nonrev THEN [d |-> main.d, err |-> NoErr, chans |-> chs, heap |-> h]
        ELSE IF revIdx.err # NoErr THEN fail(revIdx.err)
        ELSE IF c.err # NoErr
        THEN [d |-> NoBuilder, err |-> c.err, chans |-> c.chans, heap |-> c.heap]
        ELSE [d |-> [main.d EXCEPT
                        !.nonrevBuilder = c.b,
                        !.attrRandomizers = MapPut(@, revIdx.idx, c.heap[c.b].randomizer)],
              err |-> NoErr, chans |-> c.chans, heap |-> c.heap]

\* a variant of CreateDisclosureProofBuilder that calls nonrevConsumeBuilder
\* before its checks
CreateDisclosureProofBuilderConsumingFirst(sig, attrs, witness, cache, chs, h, disclosedAttributes, rangeStatements, nonrev, r, eCommit, vCommit, tape, order, ok) ==
    LET main   == BuildMain(sig, attrs, disclosedAttributes, rangeStatements,
                            r, eCommit, vCommit, tape, order)
        revIdx == NonrevIndex(attrs, witness)
        c      == nonrevConsumeBuilder(cache, chs, h, witness, ok)
        fail(err) == [d |-> NoBuilder, err |-> err, chans |-> c.chans, heap |-> c.heap]
    IN  IF main.err # NoErr THEN fail(main.err)
        ELSE IF ~nonrev THEN [d |-> main.d, err |-> NoErr, chans |-> c.chans, heap |-> c.heap]
        ELSE IF witness.nil THEN fail(ErrNoWitnessProof)
        ELSE IF revIdx.err # NoErr THEN fail(revIdx.err)
        ELSE IF c.err # NoErr THEN fail(c.err)
        ELSE [d |-> [main.d EXCEPT
                        !.nonrevBuilder = c.b,
                        !.attrRandomizers = MapPut(@, revIdx.idx, c.heap[c.b].randomizer)],
              err |-> NoErr, chans |-> c.chans, heap |-> c.heap]

\* Credential.CreateDisclosureProofBuilder: the builder returned (NoBuilder
\* is nil), the error, and the channels and the heap after the call
CreateDisclosureProofBuilder(sig, attrs, witness, cache, chs, h, disclosedAttributes, rangeStatements, nonrev, r, eCommit, vCommit, tape, order, ok) ==
    LET main   == BuildMain(sig, attrs, disclosedAttributes, rangeStatements,
                            r, eCommit, vCommit, tape, order)
        revIdx == NonrevIndex(attrs, witness)
        c      == nonrevConsumeBuilder(cache, chs, h, witness, ok)
        fail(err) == [d |-> NoBuilder, err |-> err, chans |-> chs, heap |-> h]
    IN  IF main.err # NoErr THEN fail(main.err)
        ELSE IF ~nonrev THEN [d |-> main.d, err |-> NoErr, chans |-> chs, heap |-> h]
        ELSE IF witness.nil THEN fail(ErrNoWitnessProof)
        ELSE IF revIdx.err # NoErr THEN fail(revIdx.err)
        ELSE IF c.err # NoErr
        THEN [d |-> NoBuilder, err |-> c.err, chans |-> c.chans, heap |-> c.heap]
        ELSE [d |-> [main.d EXCEPT
                        !.nonrevBuilder = c.b,
                        !.attrRandomizers = MapPut(@, revIdx.idx, c.heap[c.b].randomizer)],
              err |-> NoErr, chans |-> c.chans, heap |-> c.heap]

\* the disclosed-attribute lists, range-statement maps and random outcomes
\* the session draws its inputs from
DisclosedLists == {<<>>, <<1>>, <<2, 0>>, <<1, 1>>, <<0, 1, 2>>}

RangeStatementMaps ==
    {NilMap,
     MakeMap(1 :> <<2, 1>> @@ 2 :> <<1>>),
     MakeMap(2 :> <<1>> @@ 3 :> <<2>>),
     MakeMap(1 :> <<0>> @@ 2 :> <<1>>)}

\* the outcomes of the random source during a construction: r of Randomize,
\* eCommit, vCommit, and attr[i + 1] for attribute i
RandomTapes ==
    {[r |-> 5, eCommit |-> 11, vCommit |-> 1000, attr |-> <<2, 13, 7>>],
     [r |-> 40, eCommit |-> 3, vCommit |-> 40000, attr |-> <<9, 4, 4>>]}

\* the tapes whose outcomes RandomBigInt can return for the bit lengths asked
DrawnTapes ==
    {t \in RandomTapes :
        /\ t.r \in RandomBigInt({t.r}, pk.Params.LRA)
        /\ t.eCommit \in RandomBigInt({t.eCommit}, pk.Params.LeCommit)
        /\ t.vCommit \in RandomBigInt({t.vCommit}, pk.Params.LvCommit)
        /\ \A i \in DOMAIN t.attr : t.attr[i] \in RandomBigInt({t.attr[i]}, pk.Params.LmCommit)}

SecretKeyRandomizers == {6, 13}
Challenges == {1, 3}
Pcommits == {Exp(Rbase(0), 3, pk.N)}

\* at most MaxCommits calls of Commit and MaxMerges of MergeProofPCommitment
\* in a session
MaxCommits == 2
MaxMerges == 1

\* the record of the session: the arguments of the construction, what the
\* last call returned, the lists the calls of Commit returned (with their
\* randomizers), the commitments merged and the proof CreateProof returned
NoTimestamp == [nil |-> TRUE, A |-> 0, disclosed |-> <<>>]

NoRet ==
    [op |-> "none", err |-> NoErr, panic |-> FALSE,
     disclosedAttributes |-> <<>>, rangeStatements |-> NilMap, nonrev |-> FALSE,
     commits |-> <<>>, merges |-> <<>>, proof |-> NilProofD,
     timestamp |-> NoTimestamp]

\* the session has not yet constructed its DisclosureProofBuilder
BeforeConstruction == ret.op \in {"none", "NonrevPrepareCache"}

\* ic.NonrevPrepareCache(), before the construction
DoNonrevPrepareCache ==
    /\ BeforeConstruction
    /\ \E ok \in BOOLEAN :
          LET p == NonrevPrepareCacheCall(nonrevCache, chans, heap, NonRevocationWitness, ok)
          IN  /\ nonrevCache' = p.nonrevCache
              /\ chans' = p.chans
              /\ heap' = p.heap
              /\ ret' = [ret EXCEPT !.op = "NonrevPrepareCache", !.err = p.err]
    /\ UNCHANGED <<credVars, NonRevocationWitness, pc, loc, calls, results, d>>

\* the witness is updated, before the construction
DoWitnessUpdate ==
    /\ BeforeConstruction
    /\ WitnessUpdate

\* ic.CreateDisclosureProofBuilder(disclosedAttributes, rangeStatements, nonrev)
DoCreateDisclosureProofBuilder ==
    /\ BeforeConstruction
    /\ \E disclosedAttributes \in DisclosedLists :
       \E rangeStatements \in RangeStatementMaps :
       \E nonrev \in BOOLEAN :
       \E tape \in DrawnTapes :
       \E order \in IterOrders(DOMAIN rangeStatements.m) :
       \E ok \in BOOLEAN :
          LET c == CreateDisclosureProofBuilder(
                       Signature, Attributes, NonRevocationWitness, nonrevCache, chans, heap,
                       disclosedAttributes, rangeStatements, nonrev,
                       tape.r, tape.eCommit, tape.vCommit, tape.attr, order, ok)
          IN  /\ d' = c.d
              /\ chans' = c.chans
              /\ heap' = c.heap
              /\ ret' = [ret EXCEPT !.op = "CreateDisclosureProofBuilder", !.err = c.err,
                                    !.disclosedAttributes = disclosedAttributes,
                                    !.rangeStatements = rangeStatements,
                                    !.nonrev = nonrev]
    /\ UNCHANGED <<credVars, NonRevocationWitness, nonrevCache, pc, loc, calls, results>>

\* d.MergeProofPCommitment(commitment), before the first Commit
DoMergeProofPCommitment ==
    /\ d.built
    /\ ret.proof.nil /\ ~ret.panic
    /\ ret.commits = <<>>
    /\ Len(ret.merges) < MaxMerges
    /\ \E Pcommit \in Pcommits :
          /\ d' = MergeProofPCommitment(d, Pcommit)
          /\ ret' = [ret EXCEPT !.op = "MergeProofPCommitment", !.err = NoErr,
                                !.timestamp = NoTimestamp,
                                !.merges = Append(@, Pcommit)]
    /\ UNCHANGED <<credVars, NonRevocationWitness, nonrevCache, chans, heap,
                   pc, loc, calls, results>>

\* d.Commit(randomizers)
DoCommit ==
    /\ d.built
    /\ ret.proof.nil /\ ~ret.panic
    /\ Len(ret.commits) < MaxCommits
    /\ \E sk0 \in RandomBigInt(SecretKeyRandomizers, pk.Params.LmCommit) :
          LET randomizers == [n \in {"secretkey"} |-> sk0]
              c == Commit(d, randomizers, heap)
          IN  /\ d' = c.d
              /\ ret' = [ret EXCEPT !.op = "Commit", !.err = NoErr,
                                    !.timestamp = NoTimestamp,
                                    !.commits = Append(@, [randomizers |-> randomizers,
                                                           list |-> c.list])]
    /\ UNCHANGED <<credVars, NonRevocationWitness, nonrevCache, chans, heap,
                   pc, loc, calls, results>>

\* d.CreateProof(challenge)
DoCreateProof ==
    /\ d.built
    /\ ret.proof.nil /\ ~ret.panic
    /\ \E challenge \in RandomBigInt(Challenges, pk.Params.Lh) :
          IF RangeProofsPanic(d)
          THEN ret' = [ret EXCEPT !.op = "CreateProof", !.panic = TRUE,
                                  !.timestamp = NoTimestamp]
          ELSE ret' = [ret EXCEPT !.op = "CreateProof", !.err = NoErr,
                                  !.timestamp = NoTimestamp,
                                  !.proof = CreateProof(d, challenge, heap)]
    /\ UNCHANGED <<credVars, NonRevocationWitness, nonrevCache, chans, heap,
                   pc, loc, calls, results, d>>

\* ProofBuilderList{builder}.Challenge(context, nonce1, false): it draws the
\* randomizer of the secret, has the builder Commit with it, and hashes the
\* list with the context and the nonce into the challenge, whose value is
\* the argument `hash`; what it returns is the builder after Commit, the
\* list and the challenge
Challenge(dd, skCommitment, hash, h) ==
    LET randomizers == [n \in {"secretkey"} |-> skCommitment]
        c == Commit(dd, randomizers, h)
    IN  [d |-> c.d, randomizers |-> randomizers, list |-> c.list, challenge |-> hash]

\* ic.CreateDisclosureProof(disclosedAttributes, rangeStatements, nonrev,
\* context, nonce1): the construction, the challenge and CreateProof in one
\* call
DoCreateDisclosureProof ==
    /\ BeforeConstruction
    /\ \E disclosedAttributes \in DisclosedLists :
       \E rangeStatements \in RangeStatementMaps :
       \E nonrev \in BOOLEAN :
       \E tape \in DrawnTapes :
       \E order \in IterOrders(DOMAIN rangeStatements.m) :
       \E ok \in BOOLEAN :
       \E sk0 \in RandomBigInt(SecretKeyRandomizers, pk.Params.LmCommit) :
       \E hash \in RandomBigInt(Challenges, pk.Params.Lh) :
       \E c \in {CreateDisclosureProofBuilder(
                     Signature, Attributes, NonRevocationWitness, nonrevCache, chans, heap,
                     disclosedAttributes, rangeStatements, nonrev,
                     tape.r, tape.eCommit, tape.vCommit, tape.attr, order, ok)} :
       \E r \in {[ret EXCEPT !.op = "CreateDisclosureProof", !.err = c.err,
                              !.disclosedAttributes = disclosedAttributes,
                              !.rangeStatements = rangeStatements,
                              !.nonrev = nonrev]} :
          /\ chans' = c.chans
          /\ heap' = c.heap
          /\ IF c.err # NoErr
             THEN d' = c.d /\ ret' = r
             ELSE \E m \in {Challenge(c.d, sk0, hash, c.heap)} :
                  \E panic \in {RangeProofsPanic(m.d)} :
                     /\ d' = m.d
                     /\ ret' = [r EXCEPT
                                  !.commits = <<[randomizers |-> m.randomizers, list |-> m.list]>>,
                                  !.panic = panic,
                                  !.proof = IF panic THEN NilProofD
                                            ELSE CreateProof(m.d, m.challenge, c.heap)]
    /\ UNCHANGED <<credVars, NonRevocationWitness, nonrevCache, pc, loc, calls, results>>

\* d.TimestampRequestContributions(); the result is kept until the next call
\* on the builder
DoTimestampRequestContributions ==
    /\ d.built
    /\ ret.timestamp.nil
    /\ ret' = [ret EXCEPT !.op = "TimestampRequestContributions", !.err = NoErr,
                          !.timestamp = TimestampRequestContributions(d)]
    /\ UNCHANGED <<credVars, NonRevocationWitness, nonrevCache, chans, heap,
                   pc, loc, calls, results, d>>

\* ------------------------------------------------------------------------
\* Initial states
\* ------------------------------------------------------------------------

\* the credentials considered: the attribute block ms (attribute 0 is the
\* user secret; 5 and 6 are longer than Lm = 2 bits), the keyshare
\* commitment U in the signature (0 = none, else R_0^k for the share k = 1
\* of a keyshare server) and the revocation attribute e of the witness
\* (0 = no witness)
Credentials ==
    {[ms |-> <<2, 3, 5>>, U |-> 0, e |-> 3],
     [ms |-> <<2, 3, 5>>, U |-> Exp(Rbase(0), 1, pk.N), e |-> 2],
     [ms |-> <<1, 6, 3>>, U |-> 0, e |-> 0],
     [ms |-> <<1, 6, 3>>, U |-> Exp(Rbase(0), 1, pk.N), e |-> 3],
     [ms |-> <<1, 6, 3>>, U |-> 0, e |-> 2],
     [ms |-> <<3, 3, 5>>, U |-> 0, e |-> 3]}

\* the credentials of the concurrent model: with a witness whose revocation
\* attribute is attribute 1, and without witness
SharedCredentials ==
    {[ms |-> <<2, 3, 5>>, U |-> 0, e |-> 3],
     [ms |-> <<2, 3, 5>>, U |-> 0, e |-> 0]}

\* the outcome of RandomBigInt(Lv - 1) in signing
VTildeSamples == {3}

\* the credential an issuer hands out for the block ms: the signature of
\* signMessageBlockAndCommitment on ms and the keyshare commitment U
IssuedSignature(ms, U, vTilde, e) ==
    [signMessageBlockAndCommitment(IF U = 0 THEN 1 ELSE U, ms, vTilde, e)
        EXCEPT !.KeyshareP = U]

InitCredential(creds) ==
    /\ \E c \in creds :
       \E vTilde \in RandomBigInt(VTildeSamples, pk.Params.Lv - 1) :
       \E e \in RandomPrimeInRange(pk.Params.Le - 1, pk.Params.LePrime - 1) :
          /\ Attributes = c.ms
          /\ Signature = IssuedSignature(c.ms, c.U, vTilde, e)
          /\ NonRevocationWitness = IF c.e = 0 THEN NilWitness ELSE Witness(c.e, 0)
    /\ nonrevCache = 0
    /\ chans = <<>>
    /\ heap = <<>>
    /\ pc = [t \in Tasks |-> "idle"]
    /\ loc = [t \in Tasks |-> NoLocals]
    /\ calls = 0
    /\ results = EmptyBag
    /\ d = NoBuilder
    /\ ret = NoRet

Init == InitCredential(SharedCredentials)

TaskStep(t) ==
    \/ PrepareStart(t)
    \/ PrepareMake(t)
    \/ PrepareRecvOperand(t)
    \/ PrepareSelect(t)
    \/ PrepareUpdate(t)
    \/ PrepareBuild(t)
    \/ PrepareSendOperand(t)
    \/ PreparePut(t)
    \/ ConsumeStart(t)
    \/ ConsumeRecvOperand(t)
    \/ ConsumeSelect(t)
    \/ ConsumeUpdate(t)
    \/ ConsumeBuild(t)

Next ==
    \/ \E t \in Tasks : TaskStep(t)
    \/ WitnessUpdate

Spec == Init /\ [][Next]_vars

InitD == InitCredential(Credentials)

NextD ==
    \/ DoNonrevPrepareCache
    \/ DoWitnessUpdate
    \/ DoCreateDisclosureProofBuilder
    \/ DoCreateDisclosureProof
    \/ DoMergeProofPCommitment
    \/ DoCommit
    \/ DoCreateProof
    \/ DoTimestampRequestContributions

SpecD == InitD /\ [][NextD]_vars

\* ------------------------------------------------------------------------
\* The methods of one NonRevocationProofBuilder, called directly (SpecU):
\* heap[1] is the builder, ret records the last call: the builder before
\* it, its witness argument and the error it returned
\* ------------------------------------------------------------------------

\* the witnesses a caller may pass: of any accumulator index, older ones
\* included
WitnessArguments == {Witness(e, i) : e \in {2, 3}, i \in 0..(MaxIndex + 1)}

\* &NonRevocationProofBuilder{witness, index, randomizer} as
\* NonrevBuildProofBuilder fills it in, before its call of Commit
UncommittedBuilder(witness) ==
    [nil |-> FALSE, witness |-> witness, commit |-> NilCommit,
     commitments |-> <<>>, randomizer |-> NewProofRandomizer(<<>>),
     index |-> witness.Index]

NoCall == [op |-> "none", err |-> NoErr, before |-> NilBuilder, arg |-> NilWitness]

InitU ==
    /\ \E w \in WitnessArguments :
          /\ NonRevocationWitness = w
          /\ heap = <<UncommittedBuilder(w)>>
    /\ Attributes = <<2, 3, 5>>
    /\ \E vTilde \in RandomBigInt(VTildeSamples, pk.Params.Lv - 1) :
       \E e \in RandomPrimeInRange(pk.Params.Le - 1, pk.Params.LePrime - 1) :
          Signature = IssuedSignature(Attributes, 0, vTilde, e)
    /\ nonrevCache = 0
    /\ chans = <<>>
    /\ pc = [t \in Tasks |-> "idle"]
    /\ loc = [t \in Tasks |-> NoLocals]
    /\ calls = 0
    /\ results = EmptyBag
    /\ d = NoBuilder
    /\ ret = NoCall

\* b.Commit()
DoBuilderCommit ==
    /\ \E ok \in BOOLEAN :
          LET c == NonRevocationProofBuilderCommit(heap[1], ok)
          IN  /\ heap' = [heap EXCEPT ![1] = c.b]
              /\ ret' = [op |-> "Commit", err |-> c.err, before |-> heap[1], arg |-> NilWitness]
    /\ UNCHANGED <<credVars, NonRevocationWitness, nonrevCache, chans, pc, loc, calls, results, d>>

\* b.UpdateCommit(witness), b being the builder or a nil pointer
DoUpdateCommit ==
    /\ \E witness \in WitnessArguments :
       \E b \in {0, 1} :
          LET u == UpdateTaken(heap, b, witness)
          IN  /\ heap' = u.heap
              /\ ret' = [op |-> "UpdateCommit", err |-> u.err, before |-> Deref(heap, b),
                         arg |-> witness]
    /\ UNCHANGED <<credVars, NonRevocationWitness, nonrevCache, chans, pc, loc, calls, results, d>>

NextU ==
    \/ DoBuilderCommit
    \/ DoUpdateCommit

SpecU == InitU /\ [][NextU]_vars

\* ------------------------------------------------------------------------
\* Constructions after one NonrevPrepareCache (SpecS): the credential has
\* a witness, one call of NonrevPrepareCache has completed, and from then on
\* callers only construct disclosure proofs with nonrev = true, concurrently.
\* The channel is allocated, so no select has its operand evaluated apart.
\* ------------------------------------------------------------------------

\* what a NonrevPrepareCache that succeeded holding the builder b returned
PrepareReturn(b) == [op |-> "prepare", b |-> b, err |-> NoErr]

InitS ==
    /\ \E c \in {x \in Credentials : x.e # 0} :
       \E vTilde \in RandomBigInt(VTildeSamples, pk.Params.Lv - 1) :
       \E e \in RandomPrimeInRange(pk.Params.Le - 1, pk.Params.LePrime - 1) :
       \E p \in {NonrevPrepareCacheCall(0, <<>>, <<>>, Witness(c.e, 0), TRUE)} :
          /\ Attributes = c.ms
          /\ Signature = IssuedSignature(c.ms, c.U, vTilde, e)
          /\ NonRevocationWitness = Witness(c.e, 0)
          /\ nonrevCache = p.nonrevCache
          /\ chans = p.chans
          /\ heap = p.heap
          /\ results = SetToBag({PrepareReturn(p.chans[p.nonrevCache][1])})
    /\ pc = [t \in Tasks |-> "idle"]
    /\ loc = [t \in Tasks |-> NoLocals]
    /\ calls = 1
    /\ d = NoBuilder
    /\ ret = NoRet

ConstructionStep(t) ==
    \/ ConsumeStart(t)
    \/ ConsumeRecvOperand(t)
    \/ ConsumeUpdate(t)
    \/ ConsumeBuild(t)

NextS ==
    \/ \E t \in Tasks : ConstructionStep(t)
    \/ WitnessUpdate

SpecS == InitS /\ [][NextS]_vars

\* ------------------------------------------------------------------------
\* Properties of the builder cache, checked under Spec
\* ------------------------------------------------------------------------

\* what a revocation section that succeeded with the builder b returned
ConsumeReturn(b) == [op |-> "consume", b |-> b, err |-> NoErr]

\* the number of DisclosureProofBuilders the builder b has been handed to;
\* a revocation section that holds b and has yet to return counts
Handed(b) ==
    CopiesIn(ConsumeReturn(b), results)
       + Cardinality({t \in Tasks : pc[t] = "cons_update" /\ loc[t].b = b})

\* the builder b is buffered in some channel
InSlot(b) == \E c \in DOMAIN chans : \E i \in DOMAIN chans[c] : chans[c][i] = b

\* a NonrevPrepareCache in progress holds the builder b
HeldByPrepare(b) ==
    \E t \in Tasks : pc[t] \in {"prep_update", "prep_send", "prep_put"} /\ loc[t].b = b

\* C1: under any interleaving of NonrevPrepareCache calls and revocation
\* sections of CreateDisclosureProofBuilder on one Credential, the lazy
\* allocation of the channel included, no NonRevocationProofBuilder is
\* handed to more than one DisclosureProofBuilder; once handed it is neither
\* in a slot nor held by a NonrevPrepareCache; and the builders handed have
\* randomizers different from each other
C1_NoBuilderHandedTwice ==
    \A b \in DOMAIN heap :
       /\ Handed(b) <= 1
       /\ Handed(b) = 1 => ~InSlot(b) /\ ~HeldByPrepare(b)
       /\ \A b2 \in DOMAIN heap :
             b2 # b /\ Handed(b) = 1 /\ Handed(b2) = 1
                => heap[b].randomizer # heap[b2].randomizer

\* C1 witness: two callers have each allocated a channel, and a
\* DisclosureProofBuilder was handed the builder that a NonrevPrepareCache
\* had put into the slot
C1_Witness ==
    /\ Len(chans) = 2
    /\ \E b \in DOMAIN heap :
          /\ CopiesIn(ConsumeReturn(b), results) = 1
          /\ CopiesIn([op |-> "prepare", b |-> b, err |-> NoErr], results) >= 1

\* a call is inside nonrevConsumeBuilder
InConsume(t) == pc[t] \in {"cons_recv", "cons_select", "cons_update", "cons_build"}

\* C2: nonrevConsumeBuilder never blocks.  Whatever the state of the cache
\* (channel never allocated, slot empty, slot full, a NonrevPrepareCache
\* holding the builder between its take and its put), a consumer can take
\* its next step; after its select it holds the builder of the slot (taken
\* out of it) or holds none and builds one itself
C2_ConsumerNeverBlocks ==
    \A t \in Tasks :
       /\ InConsume(t) => ENABLED TaskStep(t)
       /\ pc[t] = "cons_update" => loc[t].b \in DOMAIN heap /\ ~InSlot(loc[t].b)
       /\ pc[t] = "cons_build" => loc[t].b = 0

\* C2 witness: a consumer has found the slot empty and builds its own
\* builder while a NonrevPrepareCache holds the builder it took out of the
\* slot
C2_Witness ==
    \E t, u \in Tasks :
       /\ pc[t] = "cons_build"
       /\ pc[u] = "prep_update"
       /\ nonrevCache # 0 /\ chans[nonrevCache] = <<>>

\* ------------------------------------------------------------------------
\* Properties of the DisclosureProofBuilder, checked under SpecD
\* ------------------------------------------------------------------------

\* C3: a second call of Commit on the same builder with the same randomizers
\* returns a list equal, element by element, to the list the first call
\* returned (each list as it was when its call returned)
C3_CommitTwiceSameList ==
    \A i, j \in DOMAIN ret.commits :
       ret.commits[i].randomizers = ret.commits[j].randomizers
          => ret.commits[i].list = ret.commits[j].list

RECURSIVE ProductOfPowers(_, _)
\* the product of R_i^{f[i]} over the keys i in K of the map f, modulo N
ProductOfPowers(f, K) ==
    IF K = {} THEN 1
    ELSE LET i == CHOOSE x \in K : TRUE
         IN  (ModPow(Rbase(i), f[i], pk.N) * ProductOfPowers(f, K \ {i})) % pk.N

\* the exponent a disclosed value m stands for in the signature, as
\* RepresentToBases takes it
MessageExponent(m) == IF BitLen(m) > pk.Params.Lm THEN IntHashSha256(m) ELSE m

\* the verifier's recomputation of the commitment Z from a ProofD:
\* (Z_pk / prod_{i in D} R_i^{m_i})^{-c} * A'^{EResponse + c * 2^(Le-1)}
\*    * S^{VResponse} * prod_{i in U} R_i^{AResponses[i]}  mod N
reconstructZ(proof) ==
    LET ms        == [i \in DOMAIN proof.ADisclosed |-> MessageExponent(proof.ADisclosed[i])]
        disclosed == ProductOfPowers(ms, DOMAIN ms)
        known     == (pk.Z * ModInverse(disclosed, pk.N).v) % pk.N
        knownC    == ModPow(known, -proof.C, pk.N)
        Ae        == ModPow(proof.A, proof.EResponse + proof.C * Pow2(pk.Params.Le - 1), pk.N)
        Sv        == ModPow(pk.S, proof.VResponse, pk.N)
        Rs        == ProductOfPowers(proof.AResponses, DOMAIN proof.AResponses)
    IN  (knownC * Ae * Sv * Rs) % pk.N

\* the session is build -> Commit -> CreateProof: one Commit, no merge, and
\* the proof has been returned
BuildCommitProve ==
    /\ ret.op = "CreateProof"
    /\ ~ret.proof.nil
    /\ Len(ret.commits) = 1
    /\ ret.merges = <<>>

\* the Z of the list the first Commit returned
EmittedZ == ret.commits[1].list[2].a

\* C4, as stated: for every signature valid on the attributes, every
\* disclosed set and every challenge, the ProofD of build -> Commit ->
\* CreateProof passes verification: the commitment recomputed from the
\* proof is the Z that Commit emitted
C4_RoundTrip ==
    BuildCommitProve /\ Verify(Signature, Attributes)
       => reconstructZ(ret.proof) = EmittedZ

\* C4, amended: the same for every valid signature without KeyshareP (a
\* signature with KeyshareP is valid only together with the keyshare
\* server's part of the secret, which build -> Commit -> CreateProof alone
\* does not prove)
C4_RoundTripWithoutKeyshareP ==
    BuildCommitProve /\ Verify(Signature, Attributes) /\ Signature.KeyshareP = 0
       => reconstructZ(ret.proof) = EmittedZ

\* C4 witness: a proof of build -> Commit -> CreateProof on a valid
\* signature without KeyshareP that discloses attribute 1 and hides an
\* attribute longer than Lm bits
C4_Witness ==
    /\ BuildCommitProve
    /\ Verify(Signature, Attributes) /\ Signature.KeyshareP = 0
    /\ ret.disclosedAttributes = <<1>>
    /\ \E i \in DOMAIN ret.proof.AResponses : BitLen(Attributes[i + 1]) > pk.Params.Lm

\* C5: for every signature s, with or without KeyshareP, that Verify
\* accepts on the attributes, the signature Randomize returns has the same E
\* and Verify accepts it on the same attributes
C5_RandomizePreservesVerify ==
    d.built /\ Verify(Signature, Attributes)
       => /\ d.randomizedSignature.E = Signature.E
          /\ Verify(d.randomizedSignature, Attributes)

\* C6: for a builder constructed with nonrev = true, from the end of the
\* construction through Commit to CreateProof, attrRandomizers[revIdx] is
\* the randomizer of the builder's NonRevocationProofBuilder, for every
\* revIdx in 0..k-1
C6_RevocationRandomizerLinked ==
    d.built /\ ret.nonrev
       => LET revIdx == NonrevIndex(Attributes, NonRevocationWitness).idx
          IN  /\ revIdx \in DOMAIN d.attrRandomizers
              /\ d.attrRandomizers[revIdx] = Deref(heap, d.nonrevBuilder).randomizer

\* C7: the ProofD of a builder constructed with nonrev = true carries a
\* NonRevocationProof whose responses have no "alpha" entry; the ProofD of
\* a builder constructed without carries no NonRevocationProof
C7_NoAlphaResponse ==
    ~ret.proof.nil
       => IF ret.nonrev
          THEN /\ ~ret.proof.NonRevocationProof.nil
               /\ "alpha" \notin DOMAIN ret.proof.NonRevocationProof.Responses
          ELSE ret.proof.NonRevocationProof.nil

\* C7 witness: a ProofD with a NonRevocationProof that carries its other
\* responses
C7_Witness ==
    /\ ~ret.proof.nil
    /\ ret.nonrev
    /\ "beta" \in DOMAIN ret.proof.NonRevocationProof.Responses

RECURSIVE ExpectedRangeOrder(_, _, _)
\* the (index, statement) pairs of the statement map rangeStatements over
\* the attribute indices index..k-1: ascending in the index and, within one
\* index, in the order the statements were given
ExpectedRangeOrder(rangeStatements, k, index) ==
    IF index >= k THEN <<>>
    ELSE (IF index \in DOMAIN rangeStatements
          THEN [j \in DOMAIN rangeStatements[index] |-> <<index, rangeStatements[index][j]>>]
          ELSE <<>>)
         \o ExpectedRangeOrder(rangeStatements, k, index + 1)

\* C8: the list Commit returns is [A', Z], then the commitments of the
\* NonRevocationProofBuilder (if the builder has one), then the range-proof
\* contributions in ascending attribute index and, within one index, in the
\* order the statements were given, whatever order the construction
\* iterated the statement map in
C8_CommitListOrder ==
    \A n \in DOMAIN ret.commits :
       LET list     == ret.commits[n].list
           nonrevs  == IF d.nonrevBuilder # 0
                       THEN Deref(heap, d.nonrevBuilder).commitments ELSE <<>>
           ranges   == SubSeq(list, 3 + Len(nonrevs), Len(list))
           expected == IF ret.rangeStatements.nil THEN <<>>
                       ELSE ExpectedRangeOrder(ret.rangeStatements.m, Len(Attributes), 0)
       IN  /\ Len(list) >= 2 + Len(nonrevs)
           /\ list[1] = Contribution("A", d.randomizedSignature.A, 0, 0)
           /\ list[2].tag = "Z"
           /\ ret.nonrev => Len(nonrevs) > 0
           /\ SubSeq(list, 3, 2 + Len(nonrevs)) = nonrevs
           /\ [j \in DOMAIN ranges |-> <<ranges[j].tag, ranges[j].a, ranges[j].b>>]
                 = [j \in DOMAIN expected |-> <<"range", expected[j][1], expected[j][2]>>]

\* C8 witness: Commit has returned a list with non-revocation commitments
\* and the contributions of three statements on two attributes
C8_Witness ==
    /\ ret.nonrev
    /\ ~ret.rangeStatements.nil
    /\ Cardinality(DOMAIN ret.rangeStatements.m) = 2
    /\ \E n \in DOMAIN ret.commits : Len(ret.commits[n].list) = 2 + 5 + 3

\* C9: for every disclosed set D within 0..k-1, the ProofD has ADisclosed
\* with key set D and ADisclosed[i] = attributes[i], and AResponses with key
\* set U = {0..k-1} \ D; the key sets are disjoint and together are 0..k-1
C9_DisclosedPartition ==
    ~ret.proof.nil
       => LET D   == Range(ret.disclosedAttributes)
              all == 0..(Len(Attributes) - 1)
          IN  /\ DOMAIN ret.proof.ADisclosed = D
              /\ \A i \in D : ret.proof.ADisclosed[i] = Attributes[i + 1]
              /\ DOMAIN ret.proof.AResponses = all \ D
              /\ DOMAIN ret.proof.ADisclosed \cap DOMAIN ret.proof.AResponses = {}
              /\ DOMAIN ret.proof.ADisclosed \cup DOMAIN ret.proof.AResponses = all

\* C9 witness: a ProofD that discloses the attributes 2 and 0 and hides
\* attribute 1
C9_Witness ==
    /\ ~ret.proof.nil
    /\ ret.disclosedAttributes = <<2, 0>>
    /\ DOMAIN ret.proof.AResponses = {1}

\* C10: CreateDisclosureProofBuilder fails with the error of a range
\* statement on a disclosed attribute, and returns no builder, whenever some
\* key of the statement map is in the disclosed set, whatever the other
\* keys of the map are
C10_RangeOnDisclosedRejected ==
    (/\ ret.op = "CreateDisclosureProofBuilder"
     /\ ~ret.rangeStatements.nil
     /\ \E index \in DOMAIN ret.rangeStatements.m : index \in Range(ret.disclosedAttributes))
       => ret.err = ErrRangeOnDisclosed /\ ~d.built

\* a construction (by CreateDisclosureProofBuilder or inside
\* CreateDisclosureProof) has returned
Constructed == ret.op \in {"CreateDisclosureProofBuilder", "CreateDisclosureProof"}

\* C11, as stated: CreateDisclosureProofBuilder and CreateDisclosureProof
\* with nonrev = true on a credential without NonRevocationWitness fail with
\* the missing-witness error and return no builder and no proof; with
\* nonrev = false the absence of a witness causes no error
C11_MissingWitness ==
    Constructed /\ NonRevocationWitness.nil
       => IF ret.nonrev
          THEN ret.err = ErrNoWitnessProof /\ ~d.built /\ ret.proof.nil
          ELSE ret.err \notin {ErrNoWitnessProof, ErrNoWitness}

\* the range section of the construction returns no error for the
\* arguments of the session, whatever order the statement map is iterated in
RangeStatementsAccepted ==
    \/ ret.rangeStatements.nil
    \/ \A order \in IterOrders(DOMAIN ret.rangeStatements.m) :
          RangeStructures(ret.disclosedAttributes, ret.rangeStatements.m, order, 1, <<>>).err = NoErr

\* C11, amended: the same for arguments whose range statements are
\* accepted (the range section runs first and its error is the one
\* returned); without witness and with nonrev = false such a call succeeds
C11_MissingWitnessAfterRange ==
    Constructed /\ NonRevocationWitness.nil /\ RangeStatementsAccepted
       => IF ret.nonrev
          THEN ret.err = ErrNoWitnessProof /\ ~d.built /\ ret.proof.nil
          ELSE ret.err = NoErr /\ d.built

\* C11 witness: CreateDisclosureProof with nonrev = true and accepted range
\* statements has failed on a credential without witness
C11_Witness ==
    /\ ret.op = "CreateDisclosureProof"
    /\ NonRevocationWitness.nil
    /\ ret.nonrev
    /\ ~ret.rangeStatements.nil
    /\ RangeStatementsAccepted
    /\ ret.err = ErrNoWitnessProof

\* the indices of the attributes equal to the E of the witness
RevocationIndices == {i \in 0..(Len(Attributes) - 1) : Attributes[i + 1] = NonRevocationWitness.E}

\* NonrevIndex on the credential returns the smallest index of an attribute
\* equal to the witness's E, or fails with the error of the missing
\* revocation attribute when there is none
NonrevIndexSmallest ==
    LET revIdx == NonrevIndex(Attributes, NonRevocationWitness)
    IN  IF RevocationIndices = {}
        THEN revIdx.err = ErrNoRevAttr
        ELSE /\ revIdx.err = NoErr
             /\ revIdx.idx \in RevocationIndices
             /\ \A i \in RevocationIndices : revIdx.idx <= i

\* the builder just constructed has, at the smallest index of the revocation
\* attribute, the randomizer of its non-revocation builder
LinkedAtSmallest ==
    (ret.op = "CreateDisclosureProofBuilder" /\ d.built)
       => /\ d.nonrevBuilder # 0
          /\ \A i \in RevocationIndices :
                (\A j \in RevocationIndices : i <= j)
                   => d.attrRandomizers[i] = heap[d.nonrevBuilder].randomizer

\* C23, as stated: NonrevIndex returns the smallest index i with
\* attributes[i] equal to the witness's E when there is one, and otherwise
\* fails with the error of the missing revocation attribute; in that case
\* the construction with nonrev = true returns this error and no builder
C23_NonrevIndex ==
    (Constructed /\ ret.nonrev /\ ~NonRevocationWitness.nil)
       => /\ NonrevIndexSmallest
          /\ LinkedAtSmallest
          /\ RevocationIndices = {} => ret.err = ErrNoRevAttr /\ ~d.built

\* C23, amended: the same, the error returned being that of the missing
\* revocation attribute when the range statements of the call are accepted
\* (the range section runs first and its error is the one returned); no
\* builder is returned in either case
C23_NonrevIndexAfterRange ==
    (Constructed /\ ret.nonrev /\ ~NonRevocationWitness.nil)
       => /\ NonrevIndexSmallest
          /\ LinkedAtSmallest
          /\ RevocationIndices = {}
                => /\ ~d.built
                   /\ ret.err # NoErr
                   /\ RangeStatementsAccepted => ret.err = ErrNoRevAttr

\* C23 witness: a construction with nonrev = true has succeeded on a
\* credential with two attributes equal to the witness's E; and
\* constructions fail on a credential with none
C23_Witness ==
    /\ ret.op = "CreateDisclosureProofBuilder"
    /\ ret.nonrev
    /\ d.built
    /\ Cardinality(RevocationIndices) = 2

\* ------------------------------------------------------------------------
\* Properties of the NonRevocationProofBuilder, checked under SpecU
\* ------------------------------------------------------------------------

\* the last call was UpdateCommit on a committed builder
UpdatedCommitted ==
    /\ ret.op = "UpdateCommit"
    /\ ~ret.before.commit.nil
    /\ Len(ret.before.commitments) >= 5

\* C12: UpdateCommit(w) on a committed builder with w.Index <= builder.index
\* changes nothing of the builder and returns success; with w.Index >
\* builder.index it sets builder.index to w.Index; so builder.index does not
\* decrease in any call
C12_MonotoneUpdate ==
    UpdatedCommitted
       => /\ ret.err = NoErr
          /\ IF ret.arg.Index <= ret.before.index
             THEN heap[1] = ret.before
             ELSE heap[1].index = ret.arg.Index
          /\ heap[1].index >= ret.before.index

\* C12 witness: UpdateCommit was called with a witness older than the
\* builder, which an earlier call of UpdateCommit had advanced
C12_Witness ==
    /\ UpdatedCommitted
    /\ ret.arg.Index < ret.before.index
    /\ ret.before.witness.Index = ret.before.index
    /\ ret.before.commit.Index = ret.before.index
    /\ ret.before.index > MaxIndex

\* C22: UpdateCommit on a nil builder, or on a builder on which Commit has
\* not yet succeeded, fails with the error of the uninitialized builder for
\* every witness, one of an older or equal Index included, and leaves the
\* builder (its witness, commitments and index) as it was
C22_UpdateBeforeCommit ==
    (ret.op = "UpdateCommit" /\ (ret.before.nil \/ ret.before.commit.nil))
       => /\ ret.err = ErrUninitialized
          /\ ret.before.nil
                \/ /\ heap[1].witness = ret.before.witness
                   /\ heap[1].commitments = ret.before.commitments
                   /\ heap[1].index = ret.before.index

\* C22 witness: UpdateCommit has failed on a builder that is not committed,
\* called with a witness older than the builder
C22_Witness ==
    /\ ret.op = "UpdateCommit"
    /\ ~ret.before.nil
    /\ ret.before.commit.nil
    /\ ret.arg.Index < ret.before.index
    /\ ret.err = ErrUninitialized

\* ------------------------------------------------------------------------
\* Further properties of the DisclosureProofBuilder, checked under SpecD
\* ------------------------------------------------------------------------

\* a proof has been returned after exactly one Commit and no merge, by
\* CreateProof or by CreateDisclosureProof
ProofOfOneCommit ==
    /\ ~ret.proof.nil
    /\ Len(ret.commits) = 1
    /\ ret.merges = <<>>

\* some hidden attribute of the proof is longer than Lm bits
HiddenLongAttribute ==
    \E i \in DOMAIN ret.proof.AResponses : BitLen(Attributes[i + 1]) > pk.Params.Lm

\* C13: for every undisclosed index i, AResponses[i] = attrRandomizers[i] +
\* c * m_i over the integers, m_i being attributes[i] when it has at most Lm
\* bits and its hash otherwise; and a proof that hides an attribute longer
\* than Lm bits (on a valid signature without KeyshareP, after one Commit)
\* satisfies the verification equation
C13_HashedResponses ==
    ~ret.proof.nil
       => /\ \A i \in DOMAIN ret.proof.AResponses :
                ret.proof.AResponses[i]
                   = d.attrRandomizers[i]
                        + ret.proof.C * (IF BitLen(Attributes[i + 1]) > pk.Params.Lm
                                         THEN IntHashSha256(Attributes[i + 1])
                                         ELSE Attributes[i + 1])
          /\ (/\ ProofOfOneCommit
              /\ HiddenLongAttribute
              /\ Verify(Signature, Attributes)
              /\ Signature.KeyshareP = 0)
                => reconstructZ(ret.proof) = EmittedZ

\* C13 witness: CreateDisclosureProof has returned a proof that hides both
\* an attribute longer than Lm bits and one that is not, with a response of
\* more bits than a randomizer has
C13_Witness ==
    /\ ret.op = "CreateDisclosureProof"
    /\ ProofOfOneCommit
    /\ Signature.KeyshareP = 0
    /\ HiddenLongAttribute
    /\ \E i \in DOMAIN ret.proof.AResponses :
          /\ BitLen(Attributes[i + 1]) <= pk.Params.Lm
          /\ BitLen(ret.proof.AResponses[i]) > pk.Params.LmCommit

\* C14: when a range statement references an undisclosed attribute i, the
\* value and the randomizer that Commit feeds into the commitment of the
\* range proof are the m_i and attrRandomizers[i] from which CreateProof
\* computes AResponses[i] = attrRandomizers[i] + c * m_i, for every
\* undisclosed i, an attribute longer than Lm bits included
C14_RangeLinkage ==
    ~ret.proof.nil /\ ~d.rpCommits.nil
       => \A i \in DOMAIN d.rpCommits.m :
          \A j \in DOMAIN d.rpCommits.m[i] :
             LET commit == d.rpCommits.m[i][j]
             IN  /\ i \in DOMAIN ret.proof.AResponses
                 /\ commit.mRandomizer = d.attrRandomizers[i]
                 /\ ret.proof.AResponses[i] = commit.mRandomizer + ret.proof.C * commit.m

\* C15: TimestampRequestContributions returns A' of the randomized
\* signature and a list as long as the attribute list, with attributes[i] at
\* every disclosed index i and zero at every undisclosed index, and it leaves
\* the builder as it was
C15_TimestampContributions ==
    [][DoTimestampRequestContributions
         => /\ d' = d
            /\ ret'.timestamp.A = d.randomizedSignature.A
            /\ Len(ret'.timestamp.disclosed) = Len(Attributes)
            /\ \A i \in 0..(Len(Attributes) - 1) :
                  ret'.timestamp.disclosed[i + 1] =
                     IF i \in Range(ret.disclosedAttributes) THEN Attributes[i + 1] ELSE 0]_vars

C15_Witness ==
    /\ ret.op = "TimestampRequestContributions"
    /\ ret.commits # <<>>
    /\ \E i, j \in 0..(Len(Attributes) - 1) :
          /\ i \in Range(ret.disclosedAttributes) /\ ret.timestamp.disclosed[i + 1] # 0
          /\ j \notin Range(ret.disclosedAttributes) /\ Attributes[j + 1] # 0
          /\ ret.timestamp.disclosed[j + 1] = 0

RECURSIVE ProductOfPcommits(_)
\* the product modulo N of the Pcommits of a sequence of merges
ProductOfPcommits(merges) ==
    IF merges = <<>> THEN 1
    ELSE (merges[1] * ProductOfPcommits(Tail(merges))) % pk.N

\* P * A'^eCommit * S^vCommit * prod_{i in U} R_i^{attrRandomizers[i]} mod N,
\* with attrRandomizers[0] the randomizer of the secret that was supplied
ExpectedZ(secretkey) ==
    LET ar == MapPut(d.attrRandomizers, 0, secretkey)
        Ae == ModPow(d.randomizedSignature.A, d.eCommit, pk.N)
        Sv == ModPow(pk.S, d.vCommit, pk.N)
    IN  (ProductOfPcommits(ret.merges) * Ae * Sv
           * ProductOfPowers(ar, Range(d.undisclosedAttributes))) % pk.N

\* C16: the Z of the list that a call of Commit returns is
\* P * A'^eCommit * S^vCommit * prod_{i in U} R_i^{attrRandomizers[i]} mod N,
\* P being the product of the Pcommits merged before Commit (1 if none) and
\* attrRandomizers[0] the supplied randomizers["secretkey"]
C16_CommitZ ==
    \A k \in DOMAIN ret.commits :
       ret.commits[k].list[2].a = ExpectedZ(ret.commits[k].randomizers["secretkey"])

\* C17: the ProofD that CreateProof(c) returns has
\* EResponse = eCommit + c * (E - 2^(Le-1)) and VResponse = vCommit + c * V',
\* both over the integers (V' may be negative), C = c and A = A' of the
\* randomized signature; and CreateProof leaves eCommit, vCommit,
\* attrRandomizers and the randomized signature of the builder as they were
C17_Responses ==
    [][(ret.proof.nil /\ ~ret'.proof.nil)
         => /\ \E c \in Challenges :
                 /\ ret'.proof.C = c
                 /\ ret'.proof.EResponse = d'.eCommit + c * (Signature.E - Pow2(pk.Params.Le - 1))
                 /\ ret'.proof.VResponse = d'.vCommit + c * d'.randomizedSignature.V
            /\ ret'.proof.A = d'.randomizedSignature.A
            /\ (ret'.op = "CreateProof"
                  => /\ d'.eCommit = d.eCommit
                     /\ d'.vCommit = d.vCommit
                     /\ d'.attrRandomizers = d.attrRandomizers
                     /\ d'.randomizedSignature = d.randomizedSignature)]_vars

C17_Witness ==
    /\ ret.op = "CreateProof"
    /\ ~ret.proof.nil
    /\ d.randomizedSignature.V < 0
    /\ ret.proof.VResponse < d.vCommit
    /\ ret.proof.VResponse >= pk.N

\* the builders in the slot of the cache, as pointers (none while the channel
\* is nil)
Slot == IF nonrevCache = 0 THEN <<>> ELSE chans[nonrevCache]

\* C18: with a witness and no concurrent call, a successful NonrevPrepareCache
\* leaves exactly one builder in the slot: a newly built one if the slot was
\* empty, and the builder that was in it, with the randomizer it had and
\* updated to the current witness, if the slot was occupied; and when that
\* builder was already at the current witness, the cache, its channel and
\* the builder are as they were
C18_PrepareIdempotent ==
    [][(DoNonrevPrepareCache /\ ~NonRevocationWitness.nil /\ ret'.err = NoErr)
         => /\ Len(Slot') = 1
            /\ heap'[Slot'[1]].witness = NonRevocationWitness
            /\ heap'[Slot'[1]].index = NonRevocationWitness.Index
            /\ heap'[Slot'[1]].commit.Index = NonRevocationWitness.Index
            /\ IF Slot = <<>>
               THEN /\ Slot'[1] \notin DOMAIN heap
                    /\ \A b \in DOMAIN heap : heap'[b] = heap[b]
               ELSE /\ Slot' = Slot
                    /\ DOMAIN heap' = DOMAIN heap
                    /\ heap'[Slot[1]].randomizer = heap[Slot[1]].randomizer
                    /\ (heap[Slot[1]].witness = NonRevocationWitness
                          => nonrevCache' = nonrevCache /\ chans' = chans /\ heap' = heap)]_vars

\* C18 witness: NonrevPrepareCache has succeeded on a witness that was
\* updated, and the slot holds the first builder ever built, at the index of
\* the witness
C18_Witness ==
    /\ ret.op = "NonrevPrepareCache"
    /\ ret.err = NoErr
    /\ NonRevocationWitness.Index > 0
    /\ Len(Slot) = 1
    /\ Len(heap) = 1
    /\ heap[Slot[1]].index = NonRevocationWitness.Index

\* ------------------------------------------------------------------------
\* Further properties of the builder cache, checked under Spec
\* ------------------------------------------------------------------------

\* a NonrevPrepareCache is at its put: the second select, lines 246-249
AtPut(t) == pc[t] \in {"prep_send", "prep_put"}

\* the channel on which the put of t acts
PutChannel(t) == IF pc[t] = "prep_put" THEN loc[t].ch ELSE nonrevCache

\* nothing refers to the builder b any more: it is in no slot, no call in
\* progress holds it and no DisclosureProofBuilder was handed it
Dropped(b) ==
    /\ ~InSlot(b)
    /\ \A t \in Tasks : loc[t].b # b
    /\ CopiesIn(ConsumeReturn(b), results) = 0

\* a slot holds at most one builder, and a NonrevPrepareCache at its put can
\* take its step
C19_SlotBounded ==
    /\ \A c \in DOMAIN chans : Len(chans[c]) <= 1
    /\ \A t \in Tasks : AtPut(t) => ENABLED TaskStep(t)

\* the put of t on a full slot leaves the slot as it is, drops the builder of
\* t and returns success; and a builder once dropped stays dropped
C19_PutOrDrop ==
    /\ \A t \in Tasks :
       \A b \in {loc[t].b} :
          (AtPut(t) /\ pc'[t] = "idle")
             => /\ results' = results (+) SetToBag({[op |-> "prepare", b |-> b, err |-> NoErr]})
                /\ IF PutChannel(t) # 0 /\ chans[PutChannel(t)] # <<>>
                   THEN chans' = chans /\ Dropped(b)'
                   ELSE InSlot(b)'
    /\ \A b \in DOMAIN heap : Dropped(b) => Dropped(b)'

\* C19: the cache slot never holds more than one builder, and
\* NonrevPrepareCache never blocks on its put: when the slot has been filled
\* since this call's take, its builder is dropped (neither put into the slot
\* nor handed to any consumer, then or later) and the call returns success
C19_PutNeverBlocks == []C19_SlotBounded /\ [][C19_PutOrDrop]_vars

\* C19 witness: a NonrevPrepareCache has returned success with a builder
\* that was dropped, while the slot holds the builder of another call
C19_Witness ==
    \E b \in DOMAIN heap :
       /\ Dropped(b)
       /\ CopiesIn([op |-> "prepare", b |-> b, err |-> NoErr], results) >= 1
       /\ nonrevCache # 0 /\ Len(chans[nonrevCache]) = 1
       /\ chans[nonrevCache][1] # b

\* the call of t returns from nonrevConsumeBuilder in this step
ConsumerReturns(t) == pc[t] \in {"cons_update", "cons_build"} /\ pc'[t] = "idle"

\* the select of the consumer t acts in this step
ConsumerSelects(t) ==
    pc[t] \in {"cons_recv", "cons_select"} /\ pc'[t] \in {"cons_update", "cons_build"}

\* some channel holds more builders after this step than before it
SlotFilled == \E c \in DOMAIN chans : Len(chans'[c]) > Len(chans[c])

\* only the put of a NonrevPrepareCache fills a slot; no step of a consumer
\* does
OnlyPrepareFills ==
    /\ SlotFilled => \E t \in Tasks : AtPut(t) /\ pc'[t] = "idle"
    /\ \A t \in Tasks : InConsume(t) /\ pc'[t] # pc[t] => ~SlotFilled

\* C20, as stated: when nonrevConsumeBuilder has returned the cache slot is
\* empty, and it stays empty until a NonrevPrepareCache fills it; a consumer
\* never puts a builder into the slot
C20_EmptyAfterConsume ==
    [][/\ \A t \in Tasks : ConsumerReturns(t) => Slot' = <<>>
       /\ OnlyPrepareFills]_vars

\* C20, amended: the select of nonrevConsumeBuilder leaves the slot it acted
\* on empty, no step of a consumer puts a builder into a slot, and only the
\* put of a NonrevPrepareCache fills one; so the slot is empty when the
\* consumer returns unless a NonrevPrepareCache running concurrently has put
\* a builder since the consumer's select
C20_EmptyAfterTake ==
    [][/\ \A t \in Tasks :
             ConsumerSelects(t) /\ loc'[t].ch # 0 => chans'[loc'[t].ch] = <<>>
       /\ \A t \in Tasks :
             (ConsumerReturns(t) /\ Slot' # <<>>)
                => \E r \in DOMAIN results' : r.op = "prepare" /\ r.err = NoErr /\ r.b = Slot'[1]
       /\ OnlyPrepareFills]_vars

\* C20 witness: a consumer has returned with the builder that a
\* NonrevPrepareCache had put into the slot, every call has returned and the
\* slot is empty
C20_Witness ==
    /\ \A t \in Tasks : pc[t] = "idle"
    /\ nonrevCache # 0 /\ Slot = <<>>
    /\ \E b \in DOMAIN heap :
          /\ CopiesIn(ConsumeReturn(b), results) = 1
          /\ CopiesIn([op |-> "prepare", b |-> b, err |-> NoErr], results) = 1

\* ------------------------------------------------------------------------
\* Properties of the constructions after one NonrevPrepareCache, checked
\* under SpecS
\* ------------------------------------------------------------------------

\* some construction has got past the select of nonrevConsumeBuilder
SomeSelected ==
    \/ \E t \in Tasks : pc[t] \in {"cons_update", "cons_build"}
    \/ \E b \in DOMAIN heap : CopiesIn(ConsumeReturn(b), results) > 0

\* C21: after one completed NonrevPrepareCache and with no further one, of
\* the concurrent constructions with nonrev = true exactly one obtains the
\* prepared builder, every other one obtains a builder built for it alone,
\* and the builders obtained have randomizers different from each other
C21_OnePreparedOthersFresh ==
    \A b0 \in DOMAIN heap :
       CopiesIn(PrepareReturn(b0), results) > 0
          => /\ Handed(b0) <= 1
             /\ SomeSelected => Handed(b0) = 1 /\ ~InSlot(b0)
             /\ \A b \in DOMAIN heap \ {b0} :
                   /\ CopiesIn(PrepareReturn(b), results) = 0
                   /\ Handed(b) <= 1
                   /\ ~InSlot(b)
                   /\ heap[b].randomizer # heap[b0].randomizer
                   /\ \A b2 \in DOMAIN heap \ {b0, b} :
                         heap[b].randomizer # heap[b2].randomizer

\* C21 witness: one construction holds the prepared builder and has yet to
\* return, while another, running at the same time, has returned with a
\* builder of its own
C21_Witness ==
    \E b0, b \in DOMAIN heap :
       /\ b # b0
       /\ CopiesIn(PrepareReturn(b0), results) = 1
       /\ \E t \in Tasks : pc[t] = "cons_update" /\ loc[t].b = b0
       /\ CopiesIn(ConsumeReturn(b), results) = 1

\* ------------------------------------------------------------------------
\* Further properties of the revocation linkage, checked under SpecD
\* ------------------------------------------------------------------------

\* C24: a ProofD that carries a NonRevocationProof has in its AResponses the
\* entry of revIdx, and that entry is
\* nonrevBuilder.randomizer + c * attributes[revIdx], for every disclosed
\* set and every position revIdx of the revocation attribute
C24_LinkedResponse ==
    (~ret.proof.nil /\ ~ret.proof.NonRevocationProof.nil)
       => LET revIdx == NonrevIndex(Attributes, NonRevocationWitness).idx
          IN  /\ revIdx \in DOMAIN ret.proof.AResponses
              /\ ret.proof.AResponses[revIdx] =
                    heap[d.nonrevBuilder].randomizer + ret.proof.C * Attributes[revIdx + 1]

\* the same for a revocation attribute that is hidden and is not attribute 0
C24_LinkedResponseHiddenNonzero ==
    (~ret.proof.nil /\ ~ret.proof.NonRevocationProof.nil)
       => LET revIdx == NonrevIndex(Attributes, NonRevocationWitness).idx
          IN  (revIdx # 0 /\ revIdx \notin Range(ret.disclosedAttributes))
                 => /\ revIdx \in DOMAIN ret.proof.AResponses
                    /\ ret.proof.AResponses[revIdx] =
                          heap[d.nonrevBuilder].randomizer + ret.proof.C * Attributes[revIdx + 1]

\* a ProofD with a NonRevocationProof whose revocation attribute, not
\* attribute 0, is disclosed
RevocationAttributeDisclosed ==
    /\ ~ret.proof.nil /\ ~ret.proof.NonRevocationProof.nil
    /\ NonrevIndex(Attributes, NonRevocationWitness).idx # 0
    /\ NonrevIndex(Attributes, NonRevocationWitness).idx \in Range(ret.disclosedAttributes)

\* a ProofD with a NonRevocationProof whose revocation attribute is the
\* hidden attribute 0
RevocationAttributeZero ==
    /\ ~ret.proof.nil /\ ~ret.proof.NonRevocationProof.nil
    /\ NonrevIndex(Attributes, NonRevocationWitness).idx = 0
    /\ 0 \notin Range(ret.disclosedAttributes)

\* ------------------------------------------------------------------------
\* Properties of the builders handed out, checked under Spec
\* ------------------------------------------------------------------------

\* C25: the builder that nonrevConsumeBuilder hands to a construction is up
\* to date: when the call returns it, its index is at least the Index of the
\* credential's witness at that moment, whether it was taken from the slot
\* and updated or built for the call
C25_HandedUpToDate ==
    [][\A t \in Tasks : \A b \in DOMAIN heap' :
          (ConsumerReturns(t) /\ results' = results (+) SetToBag({ConsumeReturn(b)}))
             => /\ heap'[b].index >= NonRevocationWitness.Index
                /\ heap'[b].commit.Index = heap'[b].index
                /\ IF pc[t] = "cons_update" THEN b = loc[t].b ELSE b \notin DOMAIN heap]_vars

\* C25 witness: a construction was handed the builder that a
\* NonrevPrepareCache had put into the slot, and the witness has been
\* updated since the credential was issued
C25_Witness ==
    \E b \in DOMAIN heap :
       /\ CopiesIn(ConsumeReturn(b), results) = 1
       /\ CopiesIn(PrepareReturn(b), results) = 1
       /\ NonRevocationWitness.Index > 0
       /\ heap[b].index = NonRevocationWitness.Index
       /\ \E b2 \in DOMAIN heap : b2 # b /\ heap[b2].index < heap[b].index

\* the pointer b names a builder on which Commit has succeeded
Committed(b) ==
    /\ b \in DOMAIN heap
    /\ ~heap[b].commit.nil
    /\ Len(heap[b].commitments) >= 5

\* C27: every builder in a slot of the cache is one on which Commit has
\* succeeded, and so is every builder taken out of a slot and about to be
\* updated; no call has failed with the error of the uninitialized builder;
\* and no builder whose construction or update failed is in a slot
C27_SlotHoldsCommitted ==
    /\ \A c \in DOMAIN chans : \A i \in DOMAIN chans[c] : Committed(chans[c][i])
    /\ \A t \in Tasks : pc[t] \in {"prep_update", "cons_update", "prep_send", "prep_put"}
                             => Committed(loc[t].b)
    /\ \A r \in DOMAIN results :
          /\ r.err # ErrUninitialized
          /\ r.err # NoErr /\ r.b # 0 => ~InSlot(r.b)

\* C27 witness: a call holds a builder it has taken out of the slot and is
\* about to update it, after the construction of a builder in another call
\* has failed
C27_Witness ==
    /\ \E t \in Tasks : pc[t] \in {"prep_update", "cons_update"} /\ Committed(loc[t].b)
    /\ \E r \in DOMAIN results : r.err = ErrNewProofCommit

\* ------------------------------------------------------------------------
\* The construction and the cache, checked under SpecD
\* ------------------------------------------------------------------------

\* a construction returns in this step
Constructs == BeforeConstruction /\ Constructed'

\* C26: a construction leaves the cache of the credential (the channel, its
\* content and the builders) as it was whenever nonrev is false and
\* whenever it fails with the range-on-disclosed, the missing-witness or the
\* revocation-attribute-missing error: the prepared builder is taken out of
\* the slot only after these checks
C26_CacheUntouched ==
    [][(Constructs /\ (~ret'.nonrev \/ ret'.err \in {ErrRangeOnDisclosed, ErrNoWitnessProof, ErrNoRevAttr}))
          => nonrevCache' = nonrevCache /\ chans' = chans /\ heap' = heap]_vars

\* C26 witness: a construction has failed for want of the revocation
\* attribute, and the prepared builder is in the slot
C26_Witness ==
    /\ ret.op = "CreateDisclosureProofBuilder"
    /\ ret.nonrev
    /\ ret.err = ErrNoRevAttr
    /\ Len(Slot) = 1

\* C28: after Commit on a builder constructed with range statements,
\* rpCommits[index] is as long as rpStructures[index] for every index the
\* construction accepted as a key of the statement map (every key not
\* disclosed, a key beyond the last attribute included), so CreateProof finds
\* a commit for every structure and does not panic
C28_CommitPerStructure ==
    (d.built /\ ret.commits # <<>> /\ ~d.rpStructures.nil)
       => /\ ~d.rpCommits.nil
          /\ \A index \in DOMAIN d.rpStructures.m :
                /\ index \in DOMAIN d.rpCommits.m
                /\ Len(d.rpCommits.m[index]) = Len(d.rpStructures.m[index])
          /\ ~ret.panic

=============================================================================
